---- MODULE Spec2Model ----
(***************************************************************************)
(* The option-list selection engine of ibyra/ipe: IpeOptlistElement        *)
(* (src/src/ipe-optlist.ts) over IpeOptionElement children                 *)
(* (src/unnamed/part_011, the attribute-backed option that the list        *)
(* imports), with the form base class IpeElementForm                       *)
(* (src/src/ipe-element-form.ts) and the element base class IpeElement     *)
(* (src/src/ipe-element.ts).                                               *)
(*                                                                         *)
(* Every DOM handler runs to completion on the single event loop, so each  *)
(* handler is one action.  The methods of the classes are operators on a   *)
(* record of the mutable fields (Cur), composed the way the code calls     *)
(* them, and an action commits the record its handler computes.            *)
(***************************************************************************)
EXTENDS Integers, Sequences, FiniteSets, TLC

\* Bounds of the model.
NumOptions == 3
NumValues == 2
\* The longest array a script assigns to values.
MaxAssigned == 2
\* The longest _values array the model follows (the code never trims it).
MaxValuesLen == 3
\* The most options the markup disables.
MaxDisabled == 1
\* The notification requests counted within one pending window ("or more").
MaxRequests == 2
\* The largest minLength and maxLength a script or a saved state assigns.
MaxLimit == 2
MaxPending == 2

Opts == 1..NumOptions
\* The value strings options carry, and that scripts assign to value/values.
Values == 1..NumValues
\* null (no option, no timer id).
Null == 0

\* Number.POSITIVE_INFINITY, the default of maxLength: above every length
\* and every limit the model assigns.
Infinity == 99

\* The value handed to ElementInternals.setFormValue when there is none.
NullForm == <<Null>>

Keys == {"Home", "End", "ArrowDown", "ArrowUp", "Enter", " ", "Tab"}

VARIABLES
  \* IpeOptionElement, per option element
  value,             \* _value
  disabled,          \* _disabled
  selected,          \* _selected
  defaultSelected,   \* the selected attribute (_selectedAttr.get())
  \* the light DOM
  children,          \* the option elements assigned to the list's slot, in order
  connected,         \* the list is in the document (its listeners are held)
  formValue,         \* the value last handed to _internals.setFormValue
  \* IpeOptlistElement / IpeElementForm
  _multiple,
  _minLength,
  _maxLength,
  _required,
  _readOnly,
  _disabled,
  _userInteracted,
  _options,
  _values,
  _selectedOptions,
  _activeElement,
  _inputTimerID,
  _changeTimerID,
  subscribed,        \* the options carrying the list's toggle listeners
  \* the host's timer queue and the events it has delivered
  inputTimers,       \* live setTimeout ids whose callback dispatches 'input'
  changeTimers,      \* live setTimeout ids whose callback dispatches 'change'
  inputEvents,       \* 'input' events dispatched since the input timer was last idle
  changeEvents,      \* 'change' events dispatched since the change timer was last idle
  requests,          \* notifyInput calls since the input timer was last idle
  \* IpeDisclosureElement, per disclosure element (selected is its _open)
  _openAttr,         \* the open attribute is present
  closeAnimations,   \* the disclosures with a close animation yet to end
  _picked,           \* IpeComboboxElement: the elements of the picked slot, in order
  open,              \* IpeComboboxElement: the open property, set as the popover toggles
  offset,            \* IpeComboboxElement: the offset property
  _updateCleanup,    \* IpeComboboxElement: the live position subscription, or Null
  float,             \* IpeFloatElement: _open, _offset, _anchor, isConnected, _updateCleanup
  autoUpdates,       \* the live autoUpdate subscriptions, [of, id]
  defined,           \* the tag names customElements has a definition for
  pending,           \* the updateOptions calls awaiting whenDefined: [elements, tags]
  upgraded,          \* the elements whose custom-element class has been applied
  \* the last handler that had an effect: [op, arg, before, threw, trace];
  \* before is the number of selected owned options it started from
  last

vars == <<value, disabled, selected, defaultSelected, children, connected,
          formValue, _multiple, _required, _readOnly,
          _disabled, _userInteracted, _options, _values, _selectedOptions,
          _activeElement, _inputTimerID, _changeTimerID, subscribed,
          inputTimers, changeTimers, inputEvents, changeEvents, requests,
          _minLength, _maxLength, _openAttr, closeAnimations,
          _picked, open, offset, _updateCleanup, float, autoUpdates, defined, pending, upgraded, last>>

----------------------------------------------------------------------------
\* Array helpers (the JavaScript built-ins and moderndash functions used).

\* Array.prototype.includes
Includes(s, x) == \E i \in DOMAIN s : s[i] = x

\* Array.prototype.indexOf, 1-based; 0 stands for the code's -1.
IndexOf(s, x) ==
  IF Includes(s, x) THEN CHOOSE i \in DOMAIN s :
                           s[i] = x /\ \A j \in 1..(i - 1) : s[j] # x
  ELSE 0

\* moderndash unique(array, Object.is): first occurrences, in order.
RECURSIVE unique(_)
unique(s) ==
  IF s = <<>> THEN <<>>
  ELSE LET front == unique(SubSeq(s, 1, Len(s) - 1))
           x == s[Len(s)]
       IN IF Includes(front, x) THEN front ELSE Append(front, x)

\* moderndash isEqual on two arrays of strings or of element references:
\* same length and the same item at every position.
isEqual(a, b) == a = b

\* Array.prototype.map(o => o.value)
RECURSIVE MapValue(_)
MapValue(s) ==
  IF s = <<>> THEN <<>> ELSE <<value[Head(s)]>> \o MapValue(Tail(s))

\* The elements of a set of options in document order.
RECURSIVE InOrder(_)
InOrder(S) ==
  IF S = {} THEN <<>>
  ELSE LET m == CHOOSE x \in S : \A y \in S : x <= y
       IN <<m>> \o InOrder(S \ {m})

Range(s) == {s[i] : i \in DOMAIN s}

----------------------------------------------------------------------------
\* The mutable fields a handler reads and writes, as one record.
Cur ==
  [selected |-> selected, formValue |-> formValue,
   _multiple |-> _multiple, _required |-> _required, _readOnly |-> _readOnly,
   _disabled |-> _disabled, _userInteracted |-> _userInteracted,
   _options |-> _options, _values |-> _values,
   _selectedOptions |-> _selectedOptions, _activeElement |-> _activeElement,
   _inputTimerID |-> _inputTimerID, _changeTimerID |-> _changeTimerID,
   subscribed |-> subscribed, inputTimers |-> inputTimers,
   changeTimers |-> changeTimers, inputEvents |-> inputEvents,
   changeEvents |-> changeEvents, requests |-> requests,
   _minLength |-> _minLength, _maxLength |-> _maxLength,
   _openAttr |-> _openAttr, closeAnimations |-> closeAnimations,
   _picked |-> _picked,
   open |-> open,
   offset |-> offset,
   _updateCleanup |-> _updateCleanup,
   float |-> float,
   autoUpdates |-> autoUpdates,
   defined |-> defined,
   pending |-> pending,
   upgraded |-> upgraded,
   ret |-> TRUE, threw |-> FALSE, trace |-> <<>>, calls |-> <<>>]

\* The number of owned options whose selected flag is set.
SelectedCount(s) == Cardinality({o \in Range(s._options) : s.selected[o]})

Commit(s) ==
  /\ selected' = s.selected
  /\ formValue' = s.formValue
  /\ _multiple' = s._multiple
  /\ _required' = s._required
  /\ _readOnly' = s._readOnly
  /\ _disabled' = s._disabled
  /\ _userInteracted' = s._userInteracted
  /\ _options' = s._options
  /\ _values' = s._values
  /\ _selectedOptions' = s._selectedOptions
  /\ _activeElement' = s._activeElement
  /\ _inputTimerID' = s._inputTimerID
  /\ _changeTimerID' = s._changeTimerID
  /\ subscribed' = s.subscribed
  /\ inputTimers' = s.inputTimers
  /\ changeTimers' = s.changeTimers
  /\ inputEvents' = s.inputEvents
  /\ changeEvents' = s.changeEvents
  /\ requests' = s.requests
  /\ _minLength' = s._minLength
  /\ _maxLength' = s._maxLength
  /\ _openAttr' = s._openAttr
  /\ closeAnimations' = s.closeAnimations
  /\ _picked' = s._picked
  /\ open' = s.open
  /\ offset' = s.offset
  /\ _updateCleanup' = s._updateCleanup
  /\ float' = s.float
  /\ autoUpdates' = s.autoUpdates
  /\ defined' = s.defined
  /\ pending' = s.pending
  /\ upgraded' = s.upgraded

\* last names the last handler that changed a field, threw or dispatched an
\* event; a handler that did none of these leaves it alone.
Ran(op, arg, s) ==
  last' = IF [s EXCEPT !.ret = TRUE] = Cur THEN last
          ELSE [op |-> op, arg |-> arg, before |-> SelectedCount(Cur),
                threw |-> s.threw, trace |-> s.trace]

----------------------------------------------------------------------------
\* IpeElementForm (src/src/ipe-element-form.ts)

\* _internals.form != null: the list stands in a form throughout.
form == TRUE

\* IpeOptlistElement.getFormValue: null when nothing is selected, else one
\* entry per value.
getFormValue(s) == IF s._values = <<>> THEN NullForm ELSE s._values

saveFormValue(s) ==
  IF ~form THEN s
  ELSE IF s._disabled THEN [s EXCEPT !.formValue = NullForm]
  ELSE [s EXCEPT !.formValue = getFormValue(s)]

\* window.setTimeout: a fresh id, not among the live ones.
NewTimerId(live) ==
  CHOOSE i \in 1..(Cardinality(live) + 1) :
    i \notin live /\ \A j \in 1..(i - 1) : j \in live

\* notifyInput without the clearTimeout of the pending timer.
notifyInput_stacking(s) ==
  LET id == NewTimerId(s.inputTimers)
      fresh == s._inputTimerID = Null
  IN [s EXCEPT !.inputTimers = s.inputTimers \cup {id}, !._inputTimerID = id,
               !.inputEvents = IF fresh THEN 0 ELSE s.inputEvents,
               !.requests = IF fresh THEN 1
                            ELSE IF s.requests < MaxRequests
                            THEN s.requests + 1 ELSE s.requests]

notifyInput(s) ==
  LET cleared == IF s._inputTimerID # Null
                 THEN s.inputTimers \ {s._inputTimerID}
                 ELSE s.inputTimers
      id == NewTimerId(cleared)
      fresh == s._inputTimerID = Null
  IN [s EXCEPT !.inputTimers = cleared \cup {id}, !._inputTimerID = id,
               !.inputEvents = IF fresh THEN 0 ELSE s.inputEvents,
               !.requests = IF fresh THEN 1
                            ELSE IF s.requests < MaxRequests
                            THEN s.requests + 1 ELSE s.requests]

notifyChange(s) ==
  LET cleared == IF s._changeTimerID # Null
                 THEN s.changeTimers \ {s._changeTimerID}
                 ELSE s.changeTimers
      id == NewTimerId(cleared)
      fresh == s._changeTimerID = Null
  IN [s EXCEPT !.changeTimers = cleared \cup {id}, !._changeTimerID = id,
               !.changeEvents = IF fresh THEN 0 ELSE s.changeEvents]

changeDisabled(s, newValue) ==
  IF newValue = s._disabled THEN [s EXCEPT !.ret = FALSE]
  ELSE [s EXCEPT !._disabled = newValue, !.ret = TRUE]

changeReadOnly(s, newValue) ==
  IF newValue = s._readOnly THEN [s EXCEPT !.ret = FALSE]
  ELSE [s EXCEPT !._readOnly = newValue, !.ret = TRUE]

changeRequired(s, newValue) ==
  IF newValue = s._required THEN [s EXCEPT !.ret = FALSE]
  ELSE [s EXCEPT !._required = newValue, !.ret = TRUE]

----------------------------------------------------------------------------
\* IpeOptionElement (src/unnamed/part_011): the silent assignment.

Option_changeSelected(s, o, newValue) ==
  IF newValue = s.selected[o] THEN [s EXCEPT !.ret = FALSE]
  ELSE [s EXCEPT !.selected[o] = newValue, !.ret = TRUE]

----------------------------------------------------------------------------
\* IpeOptlistElement (src/src/ipe-optlist.ts)

getDefaultSelected(s) ==
  SelectSeq(s._options, LAMBDA o : ~disabled[o] /\ defaultSelected[o])

changeActiveElement(s, newValue) ==
  IF s._activeElement = newValue THEN [s EXCEPT !.ret = FALSE]
  ELSE [s EXCEPT !._activeElement = newValue, !.ret = TRUE]

\* One call record per option of the array, in order.
Calls(name, opts) == [i \in DOMAIN opts |-> [call |-> name, arg |-> opts[i]]]

\* changeOptions without the early return on an unchanged sequence.
changeOptions_always(s, newValue) ==
  [s EXCEPT !._options = newValue,
            !.subscribed = (s.subscribed \ Range(s._options))
                             \cup Range(newValue),
            !.calls = s.calls \o <<[call |-> "assign", arg |-> Null]>>
                        \o Calls("unsubscribe", s._options)
                        \o Calls("subscribe", newValue),
            !.ret = TRUE]

\* changeOptions subscribing the new options before it unsubscribes the old
\* ones: removeEventListener then drops the registration of every option that
\* is in both sequences.
changeOptions_subscribeFirst(s, newValue) ==
  IF isEqual(s._options, newValue) THEN [s EXCEPT !.ret = FALSE]
  ELSE [s EXCEPT !._options = newValue,
                 !.subscribed = (s.subscribed \cup Range(newValue))
                                  \ Range(s._options),
                 !.calls = s.calls \o <<[call |-> "assign", arg |-> Null]>>
                             \o Calls("subscribe", newValue)
                             \o Calls("unsubscribe", s._options),
                 !.ret = TRUE]

\* Unsubscribes the old options, then subscribes the new ones;
\* addEventListener keeps one registration per (type, listener).  calls
\* lists the assignment of _options and the unsubscribe and subscribe calls
\* in the order the code makes them.
changeOptions(s, newValue) ==
  IF isEqual(s._options, newValue) THEN [s EXCEPT !.ret = FALSE]
  ELSE [s EXCEPT !._options = newValue,
                 !.subscribed = (s.subscribed \ Range(s._options))
                                  \cup Range(newValue),
                 !.calls = s.calls \o <<[call |-> "assign", arg |-> Null]>>
                             \o Calls("unsubscribe", s._options)
                             \o Calls("subscribe", newValue),
                 !.ret = TRUE]

\* Assigns option.selected (the silent setter) on every owned option.
changeValues(s, newValue) ==
  IF isEqual(s._values, newValue) THEN [s EXCEPT !.ret = FALSE]
  ELSE [s EXCEPT
          !._values = newValue,
          !.selected = [o \in Opts |->
                          IF Includes(s._options, o)
                          THEN Includes(newValue, value[o])
                          ELSE s.selected[o]],
          !._selectedOptions =
             SelectSeq(s._options, LAMBDA o : Includes(newValue, value[o])),
          !.ret = TRUE]

changeMinLength(s, newValue) ==
  IF newValue = s._minLength THEN [s EXCEPT !.ret = FALSE]
  ELSE [s EXCEPT !._minLength = newValue, !.ret = TRUE]

changeMaxLength(s, newValue) ==
  IF newValue = s._maxLength THEN [s EXCEPT !.ret = FALSE]
  ELSE [s EXCEPT !._maxLength = newValue, !.ret = TRUE]

changeMultiple(s, newValue) ==
  IF newValue = s._multiple THEN [s EXCEPT !.ret = FALSE]
  ELSE [s EXCEPT !._multiple = newValue, !.ret = TRUE]

canSelect(s, sel) ==
  ~s._readOnly /\ (sel \/ ~s._required \/ Len(s._selectedOptions) > 1)

selectValue(s, v, sel) ==
  LET newValue ==
        IF sel
        THEN (IF s._multiple THEN Append(s._values, v) ELSE <<v>>)
        ELSE (IF s._multiple
              THEN SelectSeq(s._values, LAMBDA w : w = v)
              ELSE <<>>)
      s1 == changeValues(s, newValue)
  IN IF ~s1.ret THEN s1 ELSE [saveFormValue(s1) EXCEPT !.ret = TRUE]

selectNotifyValue(s, v, sel) ==
  LET s1 == selectValue(s, v, sel)
  IN IF ~s1.ret THEN s1
     ELSE [notifyChange(notifyInput(s1)) EXCEPT !.ret = TRUE]

\* Array.prototype.find / findLast, given the items that pass the test:
\* the first or the last of them, or null (?? null).
FindFirst(hits) == IF hits = <<>> THEN Null ELSE hits[1]

FindLast(hits) == IF hits = <<>> THEN Null ELSE hits[Len(hits)]

getFirst(s) == FindFirst(SelectSeq(s._options, LAMBDA o : ~disabled[o]))

getFirstSelected(s) ==
  FindFirst(SelectSeq(s._options, LAMBDA o : ~disabled[o] /\ s.selected[o]))

getLast(s) == FindLast(SelectSeq(s._options, LAMBDA o : ~disabled[o]))

getLastSelected(s) ==
  FindLast(SelectSeq(s._options, LAMBDA o : ~disabled[o] /\ s.selected[o]))

\* get selectedOption(): this._selectedOptions[0] ?? null
selectedOption(s) == FindFirst(s._selectedOptions)

\* for (i = index + 1; i < length; i++) if (!options[i].disabled) return it
RECURSIVE NextLoop(_, _, _)
NextLoop(opts, i, option) ==
  IF i > Len(opts) THEN option
  ELSE IF ~disabled[opts[i]] THEN opts[i]
  ELSE NextLoop(opts, i + 1, option)

\* nextOf with the loop started at the option itself.
nextOf_inclusive(s, option) ==
  NextLoop(s._options, IndexOf(s._options, option), option)

nextOf(s, option) == NextLoop(s._options, IndexOf(s._options, option) + 1, option)

\* for (i = index - 1; i >= 0; i--) if (!options[i].disabled) return it
RECURSIVE PreviousLoop(_, _, _)
PreviousLoop(opts, i, option) ==
  IF i < 1 THEN option
  ELSE IF ~disabled[opts[i]] THEN opts[i]
  ELSE PreviousLoop(opts, i - 1, option)

previousOf(s, option) ==
  PreviousLoop(s._options, IndexOf(s._options, option) - 1, option)

\* next() and previous(); focused is document.activeElement, an option
\* element or Null for any other element.
next(s, focused) ==
  LET found == FindFirst(SelectSeq(s._options, LAMBDA o : o = focused))
      activeElement == IF found # Null THEN found
                       ELSE IF selectedOption(s) # Null THEN selectedOption(s)
                       ELSE getFirst(s)
  IN IF activeElement = Null THEN Null ELSE nextOf(s, activeElement)

previous(s, focused) ==
  LET found == FindFirst(SelectSeq(s._options, LAMBDA o : o = focused))
      activeElement == IF found # Null THEN found
                       ELSE IF selectedOption(s) # Null THEN selectedOption(s)
                       ELSE getFirst(s)
  IN IF activeElement = Null THEN Null ELSE previousOf(s, activeElement)

\* slot.assignedElements().filter(isHTMLValueOption)
assignedOptions == children

holdSlotsOver(s, assigned) ==
  LET options == assigned
      selectedValues ==
        MapValue(SelectSeq(s._options,
                           LAMBDA o : ~disabled[o] /\ s.selected[o]))
          \o s._values
      uniq == unique(selectedValues)
  IN changeValues(changeOptions(s, options), uniq)

holdSlots(s) == holdSlotsOver(s, assignedOptions)

releaseSlots(s) == changeOptions(s, <<>>)

\* toggle dispatching on the list's record of selected options rather than on
\* option.selected.
toggle_byMembership(s, option) ==
  IF ~Includes(s._options, option) THEN [s EXCEPT !.threw = TRUE]
  ELSE selectValue(s, value[option], ~Includes(s._selectedOptions, option))

toggle(s, option) ==
  IF ~Includes(s._options, option) THEN [s EXCEPT !.threw = TRUE]
  ELSE IF s.selected[option]
  THEN (IF ~Includes(s._selectedOptions, option) THEN s
        ELSE selectValue(s, value[option], FALSE))
  ELSE (IF Includes(s._selectedOptions, option) THEN s
        ELSE selectValue(s, value[option], TRUE))

\* select without the ownership check.
select_unchecked(s, option) ==
  IF Includes(s._selectedOptions, option) THEN s
  ELSE selectValue(s, value[option], TRUE)

select(s, option) ==
  IF ~Includes(s._options, option) THEN [s EXCEPT !.threw = TRUE]
  ELSE IF Includes(s._selectedOptions, option) THEN s
  ELSE selectValue(s, value[option], TRUE)

\* deselect refused by the gate that the user-initiated paths consult.
deselect_gated(s, option) ==
  IF ~Includes(s._options, option) THEN [s EXCEPT !.threw = TRUE]
  ELSE IF ~Includes(s._selectedOptions, option) THEN s
  ELSE IF ~canSelect(s, FALSE) THEN s
  ELSE selectValue(s, value[option], FALSE)

deselect(s, option) ==
  IF ~Includes(s._options, option) THEN [s EXCEPT !.threw = TRUE]
  ELSE IF ~Includes(s._selectedOptions, option) THEN s
  ELSE selectValue(s, value[option], FALSE)

resetProperties(s) == changeValues(s, MapValue(getDefaultSelected(s)))

formResetCallback(s) ==
  saveFormValue(resetProperties([s EXCEPT !._userInteracted = FALSE]))

\* getFormValidity with tooLong raised in single mode only.
getFormValidity_singleOnly(s) ==
  [valueMissing |-> s._required /\ Len(s._values) = 0,
   tooShort |-> s._multiple /\ s._minLength > Len(s._values),
   tooLong |-> ~s._multiple /\ Len(s._values) > 1]

\* The flags IpeOptlistElement.getFormValidity adds; customError is never
\* set.
getFormValidity(s) ==
  [valueMissing |-> s._required /\ Len(s._values) = 0,
   tooShort |-> s._multiple /\ s._minLength > Len(s._values),
   tooLong |-> \/ s._multiple /\ s._maxLength < Len(s._values)
               \/ ~s._multiple /\ Len(s._values) > 1]

\* FormData.get of a name the snapshot has no entry for (null).
NoEntry == "null"

\* Number.parseFloat of an entry's text, then Math.trunc: a decimal integer,
\* a fraction, or a text that gives NaN.
parseFloat(text) ==
  IF \E n \in 0..MaxLimit : ToString(n) = text
  THEN [finite |-> TRUE,
        trunc |-> CHOOSE n \in 0..MaxLimit : ToString(n) = text]
  ELSE IF text = "1.5" THEN [finite |-> TRUE, trunc |-> 1]
  ELSE [finite |-> FALSE, trunc |-> 0]

BooleanFData_from(fdataValue, defaultValue) ==
  IF fdataValue = NoEntry THEN defaultValue ELSE fdataValue = "on"

IntegerFData_from(fdataValue, defaultValue) ==
  IF fdataValue = NoEntry THEN defaultValue
  ELSE IF ~parseFloat(fdataValue).finite THEN defaultValue
  ELSE parseFloat(fdataValue).trunc

\* StringFData.getAll: every entry of the name, each a string kept as it is.
StringFData_getAll(entries) == entries

\* The entries a state snapshot may hold under each name.
BooleanEntries == {NoEntry, "on", "x"}

IntegerEntries == {NoEntry, "x", "1.5", ToString(MaxLimit)}

\* Both length entries go to changeMinLength.
setFormState(s, state) ==
  LET s0 == changeReadOnly(s, BooleanFData_from(state.readonly, FALSE))
      s1 == changeRequired(s0, BooleanFData_from(state.required, FALSE))
      s2 == changeMultiple(s1, BooleanFData_from(state.multiple, FALSE))
      s3 == changeMinLength(s2, IntegerFData_from(state.minlength, 0))
      s4 == changeMinLength(s3, IntegerFData_from(state.maxlength, Infinity))
  IN changeValues(s4, StringFData_getAll(state.values))

\* state is a snapshot (a FormData), or a string, a File or null.
formStateRestoreCallback(s, state, mode) ==
  IF mode # "restore" THEN s
  ELSE IF state.kind # "FormData" THEN s
  ELSE saveFormValue(setFormState(s, state))

----------------------------------------------------------------------------
\* IpeOptlistElement: the event handlers.

handleFocus(s) ==
  LET fs == getFirstSelected(s)
  IN changeActiveElement(s, IF fs # Null THEN fs ELSE getFirst(s))

handleBlur(s) == changeActiveElement(s, Null)

\* A click whose target is the list itself; focus() delivers a focus event
\* when the list did not have the focus yet.
handleClick(s, gainsFocus) ==
  LET s1 == [s EXCEPT !._userInteracted = TRUE]
  IN IF gainsFocus THEN handleFocus(s1) ELSE s1

\* first() and last()
List_first(s) == getFirst(s)

List_last(s) == getLast(s)

\* handleKeydown with the selection following the active element on the
\* arrow keys, Home and End.
handleKeydown_following(s, key) ==
  LET s1 == [s EXCEPT !._userInteracted = TRUE]
      active == s1._activeElement
      target == IF key = "ArrowDown" THEN nextOf(s1, active)
                ELSE IF key = "ArrowUp" THEN previousOf(s1, active)
                ELSE IF key = "Home" THEN getFirst(s1)
                ELSE getLast(s1)
  IN IF active = Null THEN s1
     ELSE IF key \notin {"Home", "End", "ArrowDown", "ArrowUp", "Enter", " "}
     THEN s1
     ELSE IF key \in {"Enter", " "}
     THEN (LET sel == ~s1.selected[active]
           IN IF ~canSelect(s1, sel) THEN s1
              ELSE selectNotifyValue(s1, value[active], sel))
     ELSE IF target = Null THEN changeActiveElement(s1, target)
     ELSE changeActiveElement(selectNotifyValue(s1, value[target], TRUE),
                              target)

\* handleKeydown dropping the active element on a key outside the handled
\* six.
handleKeydown_blurring(s, key) ==
  LET s1 == [s EXCEPT !._userInteracted = TRUE]
      active == s1._activeElement
  IN IF active = Null THEN s1
     ELSE IF key \notin {"Home", "End", "ArrowDown", "ArrowUp", "Enter", " "}
     THEN changeActiveElement(s1, Null)
     ELSE IF key \in {"Enter", " "}
     THEN (LET sel == ~s1.selected[active]
           IN IF ~canSelect(s1, sel) THEN s1
              ELSE selectNotifyValue(s1, value[active], sel))
     ELSE IF key = "ArrowDown" THEN changeActiveElement(s1, nextOf(s1, active))
     ELSE IF key = "ArrowUp"
     THEN changeActiveElement(s1, previousOf(s1, active))
     ELSE IF key = "Home" THEN changeActiveElement(s1, getFirst(s1))
     ELSE changeActiveElement(s1, getLast(s1))

\* A keydown whose target is the list itself.
handleKeydown(s, key) ==
  LET s1 == [s EXCEPT !._userInteracted = TRUE]
      active == s1._activeElement
  IN IF active = Null THEN s1
     ELSE IF key \notin {"Home", "End", "ArrowDown", "ArrowUp", "Enter", " "}
     THEN s1
     ELSE IF key \in {"Enter", " "}
     THEN (LET sel == ~s1.selected[active]
           IN IF ~canSelect(s1, sel) THEN s1
              ELSE selectNotifyValue(s1, value[active], sel))
     ELSE IF key = "ArrowDown" THEN changeActiveElement(s1, nextOf(s1, active))
     ELSE IF key = "ArrowUp"
     THEN changeActiveElement(s1, previousOf(s1, active))
     ELSE IF key = "Home" THEN changeActiveElement(s1, getFirst(s1))
     ELSE changeActiveElement(s1, getLast(s1))

\* handleOptionBeforeToggle that never calls event.preventDefault().
handleOptionBeforeToggle_allowing(s, target, newSelected) ==
  IF ~Includes(s._options, target) THEN [s EXCEPT !.ret = TRUE]
  ELSE [s EXCEPT !._userInteracted = TRUE, !.ret = TRUE]

\* ret is FALSE when the handler called event.preventDefault().
handleOptionBeforeToggle(s, target, newSelected) ==
  IF ~Includes(s._options, target) THEN [s EXCEPT !.ret = TRUE]
  ELSE LET s1 == [s EXCEPT !._userInteracted = TRUE]
       IN [s1 EXCEPT !.ret = canSelect(s1, newSelected)]

handleOptionToggle(s, target, newSelected) ==
  IF ~Includes(s._options, target) THEN s
  ELSE LET s1 == [s EXCEPT !._userInteracted = TRUE]
           s2 == selectNotifyValue(s1, value[target], newSelected)
       IN changeActiveElement(s2, target)

----------------------------------------------------------------------------
\* IpeOptionElement (src/unnamed/part_011): the programmatic methods and the
\* user-initiated, notifying path.  The trace lists what the handler did, in
\* order, each entry with the option's selected flag at that moment.

Did(s, ev, o) == [s EXCEPT !.trace = Append(s.trace, [ev |-> ev, sel |-> s.selected[o]])]

\* dispatchEvent(beforetoggle) runs the list's listener when the list is
\* subscribed, and the application's listeners, one of which may cancel.
\* The assignment made before the beforetoggle signal is dispatched.
Option_changeNotifySelected_eager(s, o, newValue, appCancels) ==
  LET s0 == Did(Did(Option_changeSelected(s, o, newValue), "assign", o),
                "beforetoggle", o)
      s1 == IF o \in s0.subscribed
            THEN handleOptionBeforeToggle(s0, o, newValue)
            ELSE [s0 EXCEPT !.ret = TRUE]
      proceed == s1.ret /\ ~appCancels
  IN IF ~proceed THEN [s1 EXCEPT !.ret = FALSE]
     ELSE LET s3 == Did(s1, "toggle", o)
              s4 == IF o \in s3.subscribed
                    THEN handleOptionToggle(s3, o, newValue)
                    ELSE s3
          IN [s4 EXCEPT !.ret = TRUE]

Option_changeNotifySelected(s, o, newValue, appCancels) ==
  LET s0 == Did(s, "beforetoggle", o)
      s1 == IF o \in s0.subscribed
            THEN handleOptionBeforeToggle(s0, o, newValue)
            ELSE [s0 EXCEPT !.ret = TRUE]
      proceed == s1.ret /\ ~appCancels
  IN IF ~proceed THEN [s1 EXCEPT !.ret = FALSE]
     ELSE LET s2 == Did(Option_changeSelected(s1, o, newValue), "assign", o)
              s3 == Did(s2, "toggle", o)
              s4 == IF o \in s3.subscribed
                    THEN handleOptionToggle(s3, o, newValue)
                    ELSE s3
          IN [s4 EXCEPT !.ret = TRUE]

Option_handleClick(s, o, appCancels) ==
  Option_changeNotifySelected(s, o, ~s.selected[o], appCancels)

Option_handleKeydown(s, o, key, appCancels) ==
  IF key # " " /\ key # "Enter" THEN s
  ELSE Option_changeNotifySelected(s, o, ~s.selected[o], appCancels)

\* toggle() going through the notifying path of the user's clicks.
Option_toggle_notifying(s, o) ==
  Option_changeNotifySelected(s, o, ~s.selected[o], FALSE)

Option_toggle(s, o) == Option_changeSelected(s, o, ~s.selected[o])

Option_select(s, o) == Option_changeSelected(s, o, TRUE)

Option_deselect(s, o) == Option_changeSelected(s, o, FALSE)

----------------------------------------------------------------------------
\* The fields of a list element after construction.
\* The option element classes: one element is of a class of its own.
Tags == {"ipe-option", "x-option"}

TagOf(e) == IF e = NumOptions THEN "x-option" ELSE "ipe-option"

InitState ==
  /\ formValue = NullForm
  /\ _multiple = FALSE
  /\ _minLength = 0
  /\ _maxLength = Infinity
  /\ _required = FALSE
  /\ _readOnly = FALSE
  /\ _disabled = FALSE
  /\ _userInteracted = FALSE
  /\ _values = <<>>
  /\ _selectedOptions = <<>>
  /\ _activeElement = Null
  /\ _inputTimerID = Null
  /\ _changeTimerID = Null
  /\ inputTimers = {}
  /\ changeTimers = {}
  /\ inputEvents = 0
  /\ changeEvents = 0
  /\ requests = 0
  /\ _openAttr = [o \in Opts |-> FALSE]
  /\ closeAnimations = {}
  /\ open = FALSE
  /\ offset = 0
  /\ _updateCleanup = Null
  /\ float = [_open |-> FALSE, _offset |-> 0, _anchor |-> Null,
              isConnected |-> TRUE, _updateCleanup |-> Null]
  /\ autoUpdates = {}
  /\ last = [op |-> "new", arg |-> Null, before |-> 0, threw |-> FALSE,
             trace |-> <<>>]

\* The same with every element's tag defined and no updateOptions call
\* awaiting.
InitFields ==
  /\ InitState
  /\ defined = Tags
  /\ upgraded = Opts
  /\ pending = <<>>

\* The attributes the markup gives the option elements 1..k; the elements
\* beyond k carry none.  At most MaxDisabled of them are disabled.
Markup(k) ==
  /\ value \in [Opts -> Values]
  /\ disabled \in [Opts -> BOOLEAN]
  /\ defaultSelected \in [Opts -> BOOLEAN]
  /\ Cardinality({o \in Opts : disabled[o]}) <= MaxDisabled
  /\ \A o \in Opts : o > k =>
       value[o] = 1 /\ ~disabled[o] /\ ~defaultSelected[o]

\* The list and k option children, parsed and connected: the list's
\* connectedCallback has run holdSlots over them (its _values was empty, so
\* changeValues returned early) and each option's initProperties has read
\* its selected attribute.
InitConnected(k) ==
  /\ Markup(k)
  /\ InitFields
  /\ _picked = <<>>
  /\ children = InOrder(1..k)
  /\ connected = TRUE
  /\ selected = defaultSelected
  /\ _options = children
  /\ subscribed = Range(children)

\* The same list over NumOptions options without attributes other than a
\* value, which differs from option to option.
InitDistinct ==
  /\ value = [o \in Opts |-> o]
  /\ disabled = [o \in Opts |-> FALSE]
  /\ defaultSelected = [o \in Opts |-> FALSE]
  /\ InitFields
  /\ _picked = <<>>
  /\ children = InOrder(Opts)
  /\ connected = TRUE
  /\ selected = defaultSelected
  /\ _options = children
  /\ subscribed = Range(children)

\* The list element just constructed, outside the document, without
\* children; the option elements exist and are in no document either.  The
\* last of them carries no attributes.
InitNew ==
  /\ Markup(NumOptions - 1)
  /\ InitFields
  /\ _picked = <<>>
  /\ children = <<>>
  /\ connected = FALSE
  /\ selected = [o \in Opts |-> FALSE]
  /\ _options = <<>>
  /\ subscribed = {}

\* The arrays a script assigns to values, or a saved state carries.
ValueLists == UNION {[1..n -> Values] : n \in 0..MaxAssigned}

\* A handler ran and left the fields as s.
Step(op, arg, s) ==
  /\ Len(s._values) <= MaxValuesLen
  /\ Commit(s)
  /\ Ran(op, arg, s)
  /\ UNCHANGED <<value, disabled, defaultSelected>>

\* An option element whose connectedCallback runs: initProperties assigns
\* selected from the selected attribute.
Option_initProperties(sel, S) ==
  [o \in Opts |-> IF o \in S THEN defaultSelected[o] ELSE sel[o]]

\* A script or the parser inserts option o among the list's children.  In a
\* connected list the option's connectedCallback runs, and the slotchange
\* the insertion queues is delivered before any other task.
DomInsert(o) ==
  /\ o \notin Range(children)
  /\ children' = InOrder(Range(children) \cup {o})
  /\ Step("insert", o,
          IF connected
          THEN holdSlotsOver([Cur EXCEPT !.selected =
                                Option_initProperties(selected, {o})],
                             children')
          ELSE Cur)
  /\ UNCHANGED connected

\* A script removes option o from the list's children.
DomRemove(o) ==
  /\ o \in Range(children)
  /\ children' = InOrder(Range(children) \ {o})
  /\ Step("remove", o,
          IF connected THEN holdSlotsOver(Cur, children') ELSE Cur)
  /\ UNCHANGED connected

\* IpeElement.handleSlotchange for a slotchange that was queued before the
\* list was connected, or a whenDefined callback of assignedOptions: both
\* run holdSlots again over unchanged children.
HandleSlotchange ==
  /\ connected
  /\ Step("slotchange", Null, holdSlots(Cur))
  /\ UNCHANGED <<children, connected>>

\* IpeElement.connectedCallback of the list, then of its option children.
ConnectedCallback ==
  /\ ~connected
  /\ connected' = TRUE
  /\ LET s == holdSlots(Cur)
     IN Step("connect", Null,
             [s EXCEPT !.selected =
                Option_initProperties(s.selected, Range(children))])
  /\ UNCHANGED children

\* IpeElement.disconnectedCallback of the list.
DisconnectedCallback ==
  /\ connected
  /\ connected' = FALSE
  /\ Step("disconnect", Null, releaseSlots(Cur))
  /\ UNCHANGED children

Frame == UNCHANGED <<children, connected>>

\* The list's public methods, called by a script with any option element.
ListToggle(o) == Step("toggle", o, toggle(Cur, o)) /\ Frame

ListSelect(o) == Step("select", o, select(Cur, o)) /\ Frame

ListDeselect(o) == Step("deselect", o, deselect(Cur, o)) /\ Frame

\* set value(value)
SetValue(v) == Step("value=", Null, changeValues(Cur, <<v>>)) /\ Frame

\* set values(value)
SetValues(vs) ==
  /\ LET s == changeValues(Cur, unique(vs))
     IN Step("values=", Null, IF s.ret THEN saveFormValue(s) ELSE s)
  /\ Frame

\* set multiple(value)
SetMultiple(b) ==
  /\ LET s == changeMultiple(Cur, b)
     IN Step("multiple=", Null, IF s.ret THEN saveFormValue(s) ELSE s)
  /\ Frame

\* set minLength(value): a finite number, truncated
SetMinLength(n) ==
  /\ LET s == changeMinLength(Cur, n)
     IN Step("minLength=", Null, IF s.ret THEN saveFormValue(s) ELSE s)
  /\ Frame

\* set maxLength(value): a finite number, truncated
SetMaxLength(n) ==
  /\ LET s == changeMaxLength(Cur, n)
     IN Step("maxLength=", Null, IF s.ret THEN saveFormValue(s) ELSE s)
  /\ Frame

\* The state snapshots the host may hand back.
Snapshots ==
  [kind : {"FormData"}, readonly : {NoEntry}, required : {NoEntry, "on"},
   multiple : BooleanEntries, minlength : IntegerEntries,
   maxlength : IntegerEntries, values : ValueLists]

\* A state that is no FormData.
NotFormData ==
  [kind |-> "string", readonly |-> NoEntry, required |-> NoEntry,
   multiple |-> NoEntry, minlength |-> NoEntry, maxlength |-> NoEntry,
   values |-> <<>>]

\* formStateRestoreCallback(state, mode), called by the host.
FormStateRestoreCallback(state, mode) ==
  /\ form
  /\ Step("restore", Null, formStateRestoreCallback(Cur, state, mode))
  /\ Frame

\* set required(value)
SetRequired(b) ==
  /\ LET s == changeRequired(Cur, b)
     IN Step("required=", Null, IF s.ret THEN saveFormValue(s) ELSE s)
  /\ Frame

\* set readOnly(value)
SetReadOnly(b) ==
  /\ LET s == changeReadOnly(Cur, b)
     IN Step("readOnly=", Null, IF s.ret THEN saveFormValue(s) ELSE s)
  /\ Frame

\* set disabled(value)
SetDisabled(b) ==
  /\ LET s == changeDisabled(Cur, b)
     IN Step("disabled=", Null, IF s.ret THEN saveFormValue(s) ELSE s)
  /\ Frame

\* IpeElementForm.formResetCallback, called by the owning form.
FormResetCallback ==
  /\ form
  /\ Step("reset", Null, formResetCallback(Cur))
  /\ Frame

\* User input reaches the list only while it is connected and not inert.
Interactive == connected /\ ~_disabled

ListFocus == Interactive /\ Step("focus", Null, handleFocus(Cur)) /\ Frame

ListBlur == Interactive /\ Step("blur", Null, handleBlur(Cur)) /\ Frame

ListClick(gainsFocus) ==
  Interactive /\ Step("listclick", Null, handleClick(Cur, gainsFocus)) /\ Frame

ListKeydown(key) ==
  Interactive /\ Step("key:" \o key, Null, handleKeydown(Cur, key)) /\ Frame

\* A click on a connected option that is not inert.
OptionClick(o, appCancels) ==
  /\ Interactive
  /\ o \in Range(children)
  /\ ~disabled[o]
  /\ Step("click", o, Option_handleClick(Cur, o, appCancels))
  /\ Frame

\* A key pressed on a connected option that is not inert.
OptionKeydown(o, key, appCancels) ==
  /\ Interactive
  /\ o \in Range(children)
  /\ ~disabled[o]
  /\ Step("optkey:" \o key, o, Option_handleKeydown(Cur, o, key, appCancels))
  /\ Frame

\* The callback that notifyInput handed to setTimeout.
InputTimerFires(id) ==
  /\ id \in inputTimers
  /\ Step("inputtimer", Null,
          [Cur EXCEPT !.inputTimers = inputTimers \ {id},
                      !._inputTimerID = Null,
                      !.inputEvents = inputEvents + 1])
  /\ Frame

\* The callback that notifyChange handed to setTimeout.
ChangeTimerFires(id) ==
  /\ id \in changeTimers
  /\ Step("changetimer", Null,
          [Cur EXCEPT !.changeTimers = changeTimers \ {id},
                      !._changeTimerID = Null,
                      !.changeEvents = changeEvents + 1])
  /\ Frame

\* IpeOptionElement's public methods, called by a script.
OptionToggle(o) == Step("Option.toggle", o, Option_toggle(Cur, o)) /\ Frame

OptionSelect(o) == Step("Option.select", o, Option_select(Cur, o)) /\ Frame

OptionDeselect(o) ==
  Step("Option.deselect", o, Option_deselect(Cur, o)) /\ Frame

----------------------------------------------------------------------------
\* The engine driven by scripts: a connected list over fixed children, of
\* which the last element of Opts may be foreign.
Init == \E k \in {NumOptions - 1, NumOptions} : InitConnected(k)

Next ==
  \/ HandleSlotchange
  \/ \E o \in Opts : ListToggle(o)
  \/ \E o \in Opts : ListSelect(o)
  \/ \E o \in Opts : ListDeselect(o)
  \/ \E v \in Values : SetValue(v)
  \/ \E vs \in ValueLists : SetValues(vs)
  \/ \E b \in BOOLEAN : SetMultiple(b)
  \/ \E b \in BOOLEAN : SetRequired(b)
  \/ FormResetCallback

Spec == Init /\ [][Next]_vars

\* The engine driven by the user.
InitUser == InitConnected(NumOptions - 1)

NextUser ==
  \/ \E b \in BOOLEAN : SetMultiple(b)
  \/ \E b \in BOOLEAN : SetRequired(b)
  \/ \E b \in BOOLEAN : SetReadOnly(b)
  \/ ListFocus
  \/ \E key \in Keys : ListKeydown(key)
  \/ \E o \in Opts, c \in BOOLEAN : OptionClick(o, c)
  \/ \E o \in Opts, key \in Keys, c \in BOOLEAN : OptionKeydown(o, key, c)

SpecUser == InitUser /\ [][NextUser]_vars

\* Keyboard navigation over the full list, which a script may disable.
NextNav ==
  \/ \E b \in BOOLEAN : SetDisabled(b)
  \/ ListFocus
  \/ ListBlur
  \/ \E g \in BOOLEAN : ListClick(g)
  \/ \E key \in Keys : ListKeydown(key)

SpecNav == InitConnected(NumOptions) /\ [][NextNav]_vars

\* The engine driven by the user, with the host's timers.
NextNotify ==
  \/ \E b \in BOOLEAN : SetMultiple(b)
  \/ ListFocus
  \/ \E key \in Keys : ListKeydown(key)
  \/ \E o \in Opts, c \in BOOLEAN : OptionClick(o, c)
  \/ \E id \in inputTimers : InputTimerFires(id)
  \/ \E id \in changeTimers : ChangeTimerFires(id)

SpecNotify == InitUser /\ [][NextNotify]_vars

\* The list under changes of its children and of its connection.
NextDom ==
  \/ \E o \in Opts : DomInsert(o)
  \/ \E o \in Opts : DomRemove(o)
  \/ HandleSlotchange
  \/ ConnectedCallback
  \/ DisconnectedCallback
  \/ ListFocus
  \/ ListBlur

SpecDom == InitNew /\ [][NextDom]_vars

\* The option elements driven by scripts and by the user.
NextOption ==
  \/ \E o \in Opts : OptionToggle(o)
  \/ \E o \in Opts : OptionSelect(o)
  \/ \E o \in Opts : OptionDeselect(o)
  \/ \E o \in Opts, c \in BOOLEAN : OptionClick(o, c)
  \/ \E o \in Opts, key \in Keys, c \in BOOLEAN : OptionKeydown(o, key, c)

SpecOption == InitUser /\ [][NextOption]_vars

\* Scripts and the user acting on a list that may be read-only or required.
NextGate ==
  \/ \E b \in BOOLEAN : SetReadOnly(b)
  \/ \E b \in BOOLEAN : SetRequired(b)
  \/ \E b \in BOOLEAN : SetMultiple(b)
  \/ \E o \in Opts : ListSelect(o)
  \/ \E o \in Opts : ListDeselect(o)
  \/ \E o \in Opts : ListToggle(o)
  \/ \E o \in Opts, c \in BOOLEAN : OptionClick(o, c)

SpecGate == InitUser /\ [][NextGate]_vars

\* The list of options with distinct values, whose length limits scripts
\* set.
NextValidity ==
  \/ \E b \in BOOLEAN : SetMultiple(b)
  \/ \E b \in BOOLEAN : SetRequired(b)
  \/ \E n \in 0..MaxLimit : SetMinLength(n)
  \/ \E n \in 0..MaxLimit : SetMaxLength(n)
  \/ \E o \in Opts : ListSelect(o)
  \/ \E o \in Opts : ListDeselect(o)
  \/ \E o \in Opts, c \in BOOLEAN : OptionClick(o, c)

SpecValidity == InitDistinct /\ [][NextValidity]_vars

\* The list in a form whose state the host saves and restores: two options
\* with distinct values and a foreign element.  The host autofills with
\* states that name no values.
InitRestore ==
  /\ InitConnected(NumOptions - 1)
  /\ value = [o \in Opts |-> IF o = 2 THEN 2 ELSE 1]
  /\ disabled = [o \in Opts |-> FALSE]
  /\ defaultSelected = [o \in Opts |-> FALSE]

NextRestore ==
  \/ \E state \in Snapshots \cup {NotFormData} :
       \E mode \in IF state.values = <<>> THEN {"restore", "autocomplete"}
                    ELSE {"restore"} :
         FormStateRestoreCallback(state, mode)
  \/ \E n \in 0..MaxLimit : SetMinLength(n)
  \/ \E n \in 0..MaxLimit : SetMaxLength(n)
  \/ \E b \in BOOLEAN : SetMultiple(b)
  \/ \E o \in Opts : ListToggle(o)

SpecRestore == InitRestore /\ [][NextRestore]_vars

----------------------------------------------------------------------------
\* IpeAccordionElement (src/src/ipe-accordion.ts) over IpeDisclosureElement
\* children (src/src/ipe-disclosure.ts).  The variables of the list stand for
\* the accordion's fields of the same name; selected[o] is disclosure o's
\* _open, which its selected getter returns.

Accordion_getSelected(s) ==
  SelectSeq(s._options, LAMBDA o : ~disabled[o] /\ s.selected[o])

\* handleOptionBeforeToggle refusing a close only when nothing else is open.
Accordion_handleOptionBeforeToggle_lenient(s, newState) ==
  IF newState # "closed" THEN FALSE
  ELSE IF ~s._required THEN FALSE
  ELSE IF Len(Accordion_getSelected(s)) > 0 THEN FALSE
  ELSE TRUE

\* TRUE when the listener calls event.preventDefault().
Accordion_handleOptionBeforeToggle(s, newState) ==
  IF newState # "closed" THEN FALSE
  ELSE IF ~s._required THEN FALSE
  ELSE IF Len(Accordion_getSelected(s)) > 1 THEN FALSE
  ELSE TRUE

\* changeOpen storing the new value and raising toggle without asking first.
Disclosure_changeOpen_unasked(s, o, newValue) ==
  IF newValue = s.selected[o] THEN [s EXCEPT !.ret = FALSE]
  ELSE [Did([s EXCEPT !.selected[o] = newValue], "toggle", o)
          EXCEPT !._openAttr[o] = newValue, !.ret = TRUE]

RECURSIVE Disclosure_changeOpen(_, _, _)
RECURSIVE Accordion_closeItems(_, _, _)

\* The loop of handleOptionToggle over the selectedOptions array it read
\* when it started: item.open = false on every item but the target.
Accordion_closeItems(s, items, target) ==
  IF items = <<>> THEN s
  ELSE Accordion_closeItems(
         IF Head(items) = target THEN s
         ELSE Disclosure_changeOpen(s, Head(items), FALSE),
         Tail(items), target)

Accordion_handleOptionToggle(s, target, newState) ==
  IF newState # "open" THEN s
  ELSE IF s._multiple THEN s
  ELSE Accordion_closeItems(s, Accordion_getSelected(s), target)

\* dispatchEvent runs the accordion's listeners when the accordion is
\* subscribed to the disclosure.  Opening sets the open attribute at once;
\* closing starts an animation whose end removes it.
Disclosure_changeOpen(s, o, newValue) ==
  LET oldValue == s.selected[o]
      newState == IF newValue THEN "open" ELSE "closed"
      listening == o \in s.subscribed
  IN IF newValue = oldValue THEN [s EXCEPT !.ret = FALSE]
     ELSE LET s0 == Did(s, "beforetoggle", o)
              proceed == ~(listening
                           /\ Accordion_handleOptionBeforeToggle(s0, newState))
          IN IF ~proceed THEN [s0 EXCEPT !.ret = FALSE]
             ELSE LET s1 == Did([s0 EXCEPT !.selected[o] = newValue],
                                "toggle", o)
                      s2 == IF listening
                            THEN Accordion_handleOptionToggle(s1, o, newState)
                            ELSE s1
                  IN IF newValue
                     THEN [s2 EXCEPT !._openAttr[o] = TRUE, !.ret = TRUE]
                     ELSE [s2 EXCEPT !.closeAnimations = @ \cup {o},
                                     !.ret = TRUE]

Disclosure_toggle(s, o) == Disclosure_changeOpen(s, o, ~s.selected[o])

Disclosure_select(s, o) == Disclosure_changeOpen(s, o, TRUE)

Disclosure_deselect(s, o) == Disclosure_changeOpen(s, o, FALSE)

Disclosure_handleSummaryClick(s, o) ==
  Disclosure_changeOpen(s, o, ~s.selected[o])

\* _openAttr.set(false) removes a present attribute, and the
\* attributeChangedCallback that follows runs changeOpen(false).
Disclosure_handleCloseAnimationEnd(s, o) ==
  LET s0 == [s EXCEPT !.closeAnimations = @ \ {o}]
  IN IF ~s0._openAttr[o] THEN s0
     ELSE Disclosure_changeOpen([s0 EXCEPT !._openAttr[o] = FALSE], o, FALSE)

\* The accordion's methods hand the call to the option.
Accordion_toggle(s, option) == Disclosure_toggle(s, option)

Accordion_select(s, option) == Disclosure_select(s, option)

Accordion_deselect(s, option) == Disclosure_deselect(s, option)

Accordion_changeMultiple(s, newValue) ==
  IF newValue = s._multiple THEN [s EXCEPT !.ret = FALSE]
  ELSE [s EXCEPT !._multiple = newValue, !.ret = TRUE]

Accordion_changeRequired(s, newValue) ==
  IF newValue = s._required THEN [s EXCEPT !.ret = FALSE]
  ELSE [s EXCEPT !._required = newValue, !.ret = TRUE]

\* isBoolean (commons.ts): typeof value === 'boolean', over the typeof of
\* its argument.
isBoolean(typeOf) == typeOf = "boolean"

\* set required(value): the guard hands isBoolean the Boolean constructor,
\* whose typeof is "function", and not the assigned value.
Accordion_setRequired(s, newValue) ==
  IF ~isBoolean("function") THEN s
  ELSE Accordion_changeRequired(s, newValue)

AccordionToggle(o) ==
  Step("Accordion.toggle", o, Accordion_toggle(Cur, o)) /\ Frame

AccordionSelect(o) ==
  Step("Accordion.select", o, Accordion_select(Cur, o)) /\ Frame

AccordionDeselect(o) ==
  Step("Accordion.deselect", o, Accordion_deselect(Cur, o)) /\ Frame

\* A click on a summary button of disclosure o; the buttons of a disabled
\* disclosure are disabled.
SummaryClick(o) ==
  /\ ~disabled[o]
  /\ Step("summaryclick", o, Disclosure_handleSummaryClick(Cur, o))
  /\ Frame

\* The finish or cancel event of a close animation of disclosure o.
CloseAnimationEnd(o) ==
  /\ o \in closeAnimations
  /\ Step("closeend", o, Disclosure_handleCloseAnimationEnd(Cur, o))
  /\ Frame

AccordionSetMultiple(v) ==
  Step("Accordion.multiple=", Null, Accordion_changeMultiple(Cur, v)) /\ Frame

\* The required attribute is set or removed: attributeChangedCallback.  (The
\* required property setter returns before it reaches changeRequired.)
AccordionSetRequired(v) ==
  Step("Accordion.required=", Null, Accordion_setRequired(Cur, v)) /\ Frame

AccordionRequiredAttribute(v) ==
  Step("Accordion.required", Null, Accordion_changeRequired(Cur, v)) /\ Frame

\* IpeDisclosureElement's disabled setter (changeDisabled).
DisclosureSetDisabled(o, v) ==
  /\ disabled[o] # v
  /\ v => Cardinality({d \in Opts : disabled[d]}) < MaxDisabled
  /\ disabled' = [disabled EXCEPT ![o] = v]
  /\ Commit(Cur)
  /\ last' = [op |-> "Disclosure.disabled=", arg |-> o,
              before |-> SelectedCount(Cur), threw |-> FALSE, trace |-> <<>>]
  /\ UNCHANGED <<value, defaultSelected>>
  /\ Frame

\* A connected accordion over NumOptions disclosures, all closed and enabled.
InitAccordion ==
  /\ InitConnected(NumOptions)
  /\ value = [o \in Opts |-> 1]
  /\ disabled = [o \in Opts |-> FALSE]
  /\ defaultSelected = [o \in Opts |-> FALSE]

NextAccordion ==
  \/ \E o \in Opts : AccordionToggle(o)
  \/ \E o \in Opts : AccordionSelect(o)
  \/ \E o \in Opts : AccordionDeselect(o)
  \/ \E o \in Opts : SummaryClick(o)
  \/ \E o \in Opts : CloseAnimationEnd(o)
  \/ \E v \in BOOLEAN : AccordionSetMultiple(v)
  \/ \E v \in BOOLEAN : AccordionSetRequired(v)
  \/ \E v \in BOOLEAN : AccordionRequiredAttribute(v)
  \/ \E o \in Opts, v \in BOOLEAN : DisclosureSetDisabled(o, v)

SpecAccordion == InitAccordion /\ [][NextAccordion]_vars

\* The same accordion with its last disclosure outside it: the disclosure is
\* connected elsewhere in the document, and the accordion neither owns it
\* nor listens to it.
InitAccordionApart ==
  /\ InitConnected(NumOptions - 1)
  /\ value = [o \in Opts |-> 1]
  /\ disabled = [o \in Opts |-> FALSE]
  /\ defaultSelected = [o \in Opts |-> FALSE]

SpecAccordionApart == InitAccordionApart /\ [][NextAccordion]_vars

----------------------------------------------------------------------------
\* IpeComboboxElement (src/src/ipe-combobox.ts) over the option list it
\* extends (src/src/ipe-combobox.demo.html) and the option element of
\* src/src/ipe-option.ts.  The options are the elements of the popover slot,
\* the picks those of the picked slot; both are option elements, so value,
\* disabled and selected hold their properties.  The selection lives in the
\* options' selected flags.

\* _options.find((o) => o.value === v) ?? null
Combobox_findByValue(s, v) ==
  FindFirst(SelectSeq(s._options, LAMBDA o : value[o] = v))

\* for (const pick of this._picked) pick.selected = option?.selected ?? false
Combobox_syncPicked(s) ==
  [s EXCEPT !.selected =
     [e \in Opts |->
        IF e \in Range(s._picked)
        THEN LET option == Combobox_findByValue(s, value[e])
             IN IF option = Null THEN FALSE ELSE s.selected[option]
        ELSE s.selected[e]]]

\* getOptionsValues(): the values of the enabled selected options, once each.
Combobox_getOptionsValues(s) ==
  unique(MapValue(SelectSeq(s._options,
                            LAMBDA o : ~disabled[o] /\ s.selected[o])))

\* saveForm(): the value handed to the form is the _formValue getter's.
Combobox_saveForm(s) ==
  LET values == Combobox_getOptionsValues(s)
  IN [s EXCEPT !.formValue = IF values = <<>> THEN NullForm ELSE values]

Combobox_canSelect(s) == ~s._readOnly

Combobox_canDeselect(s) ==
  IF s._readOnly THEN FALSE
  ELSE IF ~s._required THEN TRUE
  ELSE Cardinality({o \in Range(s._options) :
                      ~disabled[o] /\ s.selected[o]}) > 1

\* selectOption as the option list does it, the picks left alone.
Combobox_selectOption_optionsOnly(s, option) ==
  Combobox_saveForm(
    [s EXCEPT !.selected =
       [e \in Opts |->
          IF e \notin Range(s._options) THEN s.selected[e]
          ELSE IF ~s._multiple THEN value[e] = value[option]
          ELSE IF value[e] # value[option] THEN s.selected[e]
          ELSE TRUE]])

Combobox_selectOption(s, option) ==
  Combobox_saveForm(
    [s EXCEPT !.selected =
       [e \in Opts |->
          IF e \notin Range(s._options) \cup Range(s._picked)
          THEN s.selected[e]
          ELSE IF ~s._multiple THEN value[e] = value[option]
          ELSE IF value[e] # value[option] THEN s.selected[e]
          ELSE TRUE]])

Combobox_deselectOption(s, option) ==
  Combobox_saveForm(
    [s EXCEPT !.selected =
       [e \in Opts |->
          IF e \notin Range(s._options) \cup Range(s._picked)
          THEN s.selected[e]
          ELSE IF value[e] # value[option] THEN s.selected[e]
          ELSE FALSE]])

\* notifyInput() and notifyChange() are recorded as calls.
Combobox_selectNotifyOption(s, option) ==
  LET s1 == Combobox_selectOption(s, option)
  IN [s1 EXCEPT !.calls = @ \o <<[call |-> "notifyInput", arg |-> option],
                                 [call |-> "notifyChange", arg |-> option]>>]

Combobox_deselectNotifyOption(s, option) ==
  LET s1 == Combobox_deselectOption(s, option)
  IN [s1 EXCEPT !.calls = @ \o <<[call |-> "notifyInput", arg |-> option],
                                 [call |-> "notifyChange", arg |-> option]>>]

\* toggle(option), select(option), deselect(option)
Combobox_toggle(s, option) ==
  IF ~Includes(s._options, option) THEN [s EXCEPT !.threw = TRUE]
  ELSE IF s.selected[option] THEN Combobox_deselectOption(s, option)
  ELSE Combobox_selectOption(s, option)

Combobox_select(s, option) ==
  IF ~Includes(s._options, option) THEN [s EXCEPT !.threw = TRUE]
  ELSE Combobox_selectOption(s, option)

Combobox_deselect(s, option) ==
  IF ~Includes(s._options, option) THEN [s EXCEPT !.threw = TRUE]
  ELSE Combobox_deselectOption(s, option)

\* resetForm(): every option's reset() restores its default selected flag,
\* then the picks are brought in line.
Combobox_resetForm(s) ==
  Combobox_syncPicked(
    [s EXCEPT !.selected =
       [e \in Opts |-> IF e \in Range(s._options) THEN defaultSelected[e]
                       ELSE s.selected[e]]])

\* autoUpdate(anchor, panel, update) starts a subscription and returns its
\* cleanup; a subscription is [of, id], of naming the panel it repositions.
LiveOf(s, panel) == {sub \in s.autoUpdates : sub.of = panel}

NewSubscription(s, panel) ==
  [of |-> panel, id |-> NewTimerId({sub.id : sub \in s.autoUpdates})]

\* updatePosition(): the popover slot is in the render root.
Combobox_updatePosition(s, isConnected) ==
  LET s1 == IF s._updateCleanup = Null THEN s
            ELSE [s EXCEPT !.autoUpdates =
                             @ \ {[of |-> "combobox", id |-> s._updateCleanup]},
                           !._updateCleanup = Null]
  IN IF ~s1.open \/ ~isConnected THEN s1
     ELSE LET sub == NewSubscription(s1, "combobox")
          IN [s1 EXCEPT !._updateCleanup = sub.id,
                        !.autoUpdates = @ \cup {sub}]

\* this.open = newValue: the reactive property requests an update when the
\* value differs, and updated() of that update runs updatePosition.
Combobox_setOpen(s, newValue, isConnected) ==
  IF s.open = newValue THEN s
  ELSE Combobox_updatePosition([s EXCEPT !.open = newValue], isConnected)

\* this.offset = newValue, likewise.
Combobox_setOffset(s, newValue, isConnected) ==
  IF s.offset = newValue THEN s
  ELSE Combobox_updatePosition([s EXCEPT !.offset = newValue], isConnected)

\* handlePopoverBeforetoggle: the popover slot is about to open or close;
\* the combobox is connected.  The handler dispatches a cancelable
\* beforetoggle on the combobox, recorded as a call; proceed is FALSE when a
\* listener cancels it.
Combobox_handlePopoverBeforetoggle(s, newState, proceed) ==
  LET s0 == [s EXCEPT !.calls = Append(@, [call |-> "beforetoggle",
                                           arg |-> Null])]
  IN IF ~proceed THEN s0
     ELSE Combobox_setOpen(
            [s0 EXCEPT !._activeElement =
                          IF getFirstSelected(s0) # Null
                          THEN getFirstSelected(s0)
                          ELSE getFirst(s0)],
            newState = "open", TRUE)

\* popoverSlot.hidePopover(): a shown popover fires beforetoggle and closes;
\* no listener cancels.
Combobox_hidePopover(s) ==
  IF s.open THEN Combobox_handlePopoverBeforetoggle(s, "closed", TRUE) ELSE s

\* inputElement.click(): the input is the popover's invoker and toggles it;
\* no listener cancels.
Combobox_inputClick(s) ==
  Combobox_handlePopoverBeforetoggle(s, IF s.open THEN "closed" ELSE "open",
                                     TRUE)

\* The list's listeners on an option's beforetoggle and toggle signals.
\* ret is FALSE when the listener called preventDefault.
Combobox_handleOptionBeforeToggle(s, option, newValue) ==
  IF ~Includes(s._options, option) THEN [s EXCEPT !.ret = TRUE]
  ELSE LET s1 == [s EXCEPT !._userInteracted = TRUE]
       IN IF newValue /\ Combobox_canSelect(s1) THEN [s1 EXCEPT !.ret = TRUE]
          ELSE IF ~newValue /\ Combobox_canDeselect(s1)
          THEN [s1 EXCEPT !.ret = TRUE]
          ELSE [s1 EXCEPT !.ret = FALSE]

Combobox_handleOptionToggle(s, option, newValue) ==
  IF ~Includes(s._options, option) THEN s
  ELSE LET s1 == [s EXCEPT !._userInteracted = TRUE]
       IN IF newValue THEN Combobox_selectNotifyOption(s1, option)
          ELSE Combobox_deselectNotifyOption(s1, option)

\* The combobox's listeners on a pick's beforetoggle and toggle signals.
Combobox_handlePickedBeforeToggle(s, picked, newValue) ==
  LET option == Combobox_findByValue(s, value[picked])
  IN IF ~Includes(s._picked, picked) \/ option = Null
     THEN [s EXCEPT !.ret = TRUE]
     ELSE LET s1 == [s EXCEPT !._userInteracted = TRUE]
          IN IF newValue /\ (s1.selected[option] \/ Combobox_canSelect(s1))
             THEN [s1 EXCEPT !.ret = TRUE]
             ELSE IF ~newValue /\ (~s1.selected[option]
                                     \/ Combobox_canDeselect(s1))
             THEN [s1 EXCEPT !.ret = TRUE]
             ELSE [s1 EXCEPT !.ret = FALSE]

Combobox_handlePickedToggle(s, pick, newValue) ==
  LET option == Combobox_findByValue(s, value[pick])
  IN IF ~Includes(s._picked, pick) \/ option = Null THEN s
     ELSE LET s1 == [s EXCEPT !._userInteracted = TRUE]
          IN IF newValue
             THEN IF s1.selected[option] THEN s1
                  ELSE Combobox_selectNotifyOption(s1, option)
             ELSE IF ~s1.selected[option] THEN s1
                  ELSE Combobox_deselectNotifyOption(s1, option)

\* IpeOptionElement.toggleSelected of an option or a pick e: beforetoggle to
\* the combobox's listener, the assignment unless cancelled, then toggle.
Combobox_toggleSelected(s, e) ==
  LET newValue == ~s.selected[e]
      isPick == Includes(s._picked, e)
      s1 == IF isPick THEN Combobox_handlePickedBeforeToggle(s, e, newValue)
            ELSE Combobox_handleOptionBeforeToggle(s, e, newValue)
  IN IF ~s1.ret THEN s1
     ELSE LET s2 == [s1 EXCEPT !.selected[e] = newValue]
          IN IF isPick THEN Combobox_handlePickedToggle(s2, e, newValue)
             ELSE Combobox_handleOptionToggle(s2, e, newValue)

\* handleOptionClick, the list's listener on an option's click.
Combobox_handleOptionClick(s, option) ==
  LET s1 == [s EXCEPT !._userInteracted = TRUE]
  IN IF ~Includes(s1._options, option) \/ disabled[option] THEN s1
     ELSE LET s2 == [s1 EXCEPT !._activeElement = option]
          IN IF s2._multiple THEN s2 ELSE Combobox_hidePopover(s2)

\* A click on an element e of either slot: the element's own handleClick,
\* then, for an option, the list's handleOptionClick.
Combobox_elementClick(s, e) ==
  LET s1 == Combobox_toggleSelected(s, e)
  IN IF Includes(s._picked, e) THEN s1
     ELSE Combobox_handleOptionClick(s1, e)

\* Enter or Space, or an arrow, Home or End over a closed popover, acts on
\* an option: it is selected when unselected and deselected when selected.
Combobox_flip(s, option) ==
  IF ~s.selected[option]
  THEN IF Combobox_canSelect(s) THEN Combobox_selectNotifyOption(s, option)
       ELSE s
  ELSE IF Combobox_canDeselect(s)
       THEN Combobox_deselectNotifyOption(s, option)
       ELSE s

\* handleKeydown with the combobox as the event's target.
Combobox_handleKeydown(s, key, altKey) ==
  LET s1 == [s EXCEPT !._userInteracted = TRUE]
      active == s1._activeElement
      current == getFirstSelected(s1)
  IN IF key \notin {"Home", "End", "ArrowDown", "ArrowUp", "Enter", " ", "Tab"}
     THEN s1
     ELSE IF s1.open
     THEN IF active = Null THEN s1
          ELSE IF key \in {"Enter", " "}
          THEN LET s2 == Combobox_flip(s1, active)
               IN IF s2._multiple THEN s2 ELSE Combobox_hidePopover(s2)
          ELSE IF key \in {"ArrowDown", "ArrowUp"} /\ altKey
          THEN Combobox_inputClick(s1)
          ELSE IF key = "ArrowDown"
          THEN [s1 EXCEPT !._activeElement = nextOf(s1, active)]
          ELSE IF key = "ArrowUp"
          THEN [s1 EXCEPT !._activeElement = previousOf(s1, active)]
          ELSE IF key = "Home" THEN [s1 EXCEPT !._activeElement = getFirst(s1)]
          ELSE IF key = "End" THEN [s1 EXCEPT !._activeElement = getLast(s1)]
          ELSE s1
     ELSE IF key \in {"Enter", " "} THEN Combobox_inputClick(s1)
     ELSE IF key \in {"ArrowDown", "ArrowUp"} /\ (altKey \/ s1._multiple)
     THEN Combobox_inputClick(s1)
     ELSE LET target ==
                IF key = "ArrowDown"
                THEN IF current # Null THEN nextOf(s1, current)
                     ELSE getFirst(s1)
                ELSE IF key = "ArrowUp"
                THEN IF current # Null THEN previousOf(s1, current)
                     ELSE getLast(s1)
                ELSE IF key = "Home" THEN getFirst(s1)
                ELSE IF key = "End" THEN getLast(s1)
                ELSE Null
          IN IF target = Null THEN s1 ELSE Combobox_flip(s1, target)

\* The combobox connected, with the options 1..k in its popover slot and the
\* remaining elements, which carry no attribute but a value, in its picked
\* slot: updateOptions and updatePicked have both run, so every pick carries
\* the flag of the first option with its value, or none.  The values are
\* interchangeable, so the first option carries the first of them; no
\* element is disabled.
InitCombobox ==
  \E k \in 1..(NumOptions - 1) :
    /\ value \in [Opts -> Values]
    /\ value[1] = 1
    /\ disabled = [e \in Opts |-> FALSE]
    /\ defaultSelected \in [Opts -> BOOLEAN]
    /\ \A e \in Opts : e > k => ~defaultSelected[e]
    /\ InitFields
    /\ children = InOrder(1..k)
    /\ connected = TRUE
    /\ _options = children
    /\ subscribed = Range(children)
    /\ \E picks \in {InOrder((k + 1)..NumOptions)} :
         /\ _picked = picks
         /\ selected =
              [e \in Opts |->
                 IF e \in Range(picks)
                 THEN \E i \in 1..k :
                        /\ value[i] = value[e]
                        /\ \A j \in 1..(i - 1) : value[j] # value[e]
                        /\ defaultSelected[i]
                 ELSE defaultSelected[e]]

ComboboxToggle(o) == Step("toggle", o, Combobox_toggle(Cur, o)) /\ Frame

ComboboxSelect(o) == Step("select", o, Combobox_select(Cur, o)) /\ Frame

ComboboxDeselect(o) == Step("deselect", o, Combobox_deselect(Cur, o)) /\ Frame

\* A click on an option of the popover or on a pick.
ComboboxElementClick(e) ==
  /\ e \in Range(_options) \cup Range(_picked)
  /\ ~disabled[e]
  /\ Step("click", e, Combobox_elementClick(Cur, e))
  /\ Frame

ComboboxKeydown(key, altKey) ==
  Step("key", Null, Combobox_handleKeydown(Cur, key, altKey)) /\ Frame

\* A click on the input, the popover's invoker.
ComboboxInputClick == Step("inputclick", Null, Combobox_inputClick(Cur)) /\ Frame

\* The form is reset.
ComboboxResetForm == Step("reset", Null, Combobox_resetForm(Cur)) /\ Frame

\* Scripts set the multiple, required and readOnly properties.
ComboboxSetMultiple ==
  Step("multiple=", Null, [Cur EXCEPT !._multiple = ~@]) /\ Frame

ComboboxSetRequired ==
  Step("required=", Null, [Cur EXCEPT !._required = ~@]) /\ Frame

ComboboxSetReadOnly ==
  Step("readOnly=", Null, [Cur EXCEPT !._readOnly = ~@]) /\ Frame

NextCombobox ==
  \/ \E o \in Opts : ComboboxToggle(o) \/ ComboboxSelect(o) \/ ComboboxDeselect(o)
  \/ \E e \in Opts : ComboboxElementClick(e)
  \/ \E key \in Keys : ComboboxKeydown(key, FALSE)
  \/ \E key \in {"ArrowDown", "ArrowUp"} : ComboboxKeydown(key, TRUE)
  \/ ComboboxInputClick
  \/ ComboboxResetForm
  \/ ComboboxSetMultiple
  \/ ComboboxSetRequired
  \/ ComboboxSetReadOnly

SpecCombobox == InitCombobox /\ [][NextCombobox]_vars

\* The combobox leaves the document: updateOptions and updatePicked find no
\* assigned element (getAssignedElements returns [] when disconnected), the
\* first empties _options, the second compares with _options and returns;
\* then updatePosition.
Combobox_disconnectedCallback(s) ==
  LET s1 == IF s._options = <<>> THEN s
            ELSE Combobox_syncPicked(Combobox_saveForm(
                   [s EXCEPT !._options = <<>>, !.subscribed = {}]))
  IN Combobox_updatePosition(s1, FALSE)

\* The combobox enters the document with kids in its popover slot and the
\* picks in its picked slot: updateOptions, then updatePicked.
Combobox_connectedCallback(s, kids) ==
  LET s1 == IF isEqual(s._options, kids) THEN s
            ELSE Combobox_syncPicked(Combobox_saveForm(
                   [s EXCEPT !._options = kids, !.subscribed = Range(kids)]))
  IN IF isEqual(s1._options, s1._picked) THEN s1 ELSE Combobox_syncPicked(s1)

----------------------------------------------------------------------------
\* IpeFloatElement (src/unnamed/part_007), the fields in the record float.

\* updatePosition without the teardown of the subscription it holds.
Float_updatePosition_keeping(s) ==
  IF ~s.float._open \/ ~s.float.isConnected THEN s
  ELSE LET sub == NewSubscription(s, "float")
       IN [s EXCEPT !.float._updateCleanup = sub.id,
                    !.autoUpdates = @ \cup {sub}]

\* updatePosition(): the anchor is _anchor or the first element of the body,
\* which a connected panel's document has.
Float_updatePosition(s) ==
  LET s1 == IF s.float._updateCleanup = Null THEN s
            ELSE [s EXCEPT !.autoUpdates =
                             @ \ {[of |-> "float",
                                   id |-> s.float._updateCleanup]},
                           !.float._updateCleanup = Null]
  IN IF ~s1.float._open \/ ~s1.float.isConnected THEN s1
     ELSE LET sub == NewSubscription(s1, "float")
          IN [s1 EXCEPT !.float._updateCleanup = sub.id,
                        !.autoUpdates = @ \cup {sub}]

\* changeOpen, changeOffset, changeAnchor: ret tells whether the value changed.
Float_changeOpen(s, newValue) ==
  IF newValue = s.float._open THEN [s EXCEPT !.ret = FALSE]
  ELSE [s EXCEPT !.float._open = newValue, !.ret = TRUE]

Float_changeOffset(s, newValue) ==
  IF newValue = s.float._offset THEN [s EXCEPT !.ret = FALSE]
  ELSE [s EXCEPT !.float._offset = newValue, !.ret = TRUE]

Float_changeAnchor(s, newValue) ==
  IF newValue = s.float._anchor THEN [s EXCEPT !.ret = FALSE]
  ELSE [s EXCEPT !.float._anchor = newValue, !.ret = TRUE]

\* set open, set offset, set anchor
Float_setOpen(s, newValue) ==
  LET s1 == Float_changeOpen(s, newValue)
  IN IF ~s1.ret THEN s1 ELSE Float_updatePosition(s1)

Float_setOffset(s, newValue) ==
  LET s1 == Float_changeOffset(s, newValue)
  IN IF ~s1.ret THEN s1 ELSE Float_updatePosition(s1)

Float_setAnchor(s, newValue) ==
  LET s1 == Float_changeAnchor(s, newValue)
  IN IF ~s1.ret THEN s1 ELSE Float_updatePosition(s1)

\* handleBeforetoggle: the panel's popover is about to open or close.
Float_handleBeforetoggle(s, newState) ==
  LET s1 == Float_changeOpen(s, newState = "open")
  IN IF ~s1.ret THEN s1 ELSE Float_updatePosition(s1)

\* connectedCallback: initProperties reads the open attribute, which changeOpen
\* keeps equal to _open; then updatePosition.
Float_connectedCallback(s) ==
  Float_updatePosition([s EXCEPT !.float.isConnected = TRUE])

Float_disconnectedCallback(s) ==
  Float_updatePosition([s EXCEPT !.float.isConnected = FALSE])

----------------------------------------------------------------------------
\* A page with a floating panel and a combobox.

InitPanel ==
  /\ value = [e \in Opts |-> IF e = 2 THEN 2 ELSE 1]
  /\ disabled = [e \in Opts |-> FALSE]
  /\ defaultSelected = [e \in Opts |-> FALSE]
  /\ InitFields
  /\ children = InOrder(1..(NumOptions - 1))
  /\ connected = TRUE
  /\ selected = defaultSelected
  /\ _options = children
  /\ subscribed = Range(children)
  /\ _picked = <<NumOptions>>

Offsets == 0..MaxLimit

FloatSetOpen(v) == Step("float.open=", Null, Float_setOpen(Cur, v)) /\ Frame

FloatSetOffset(n) ==
  Step("float.offset=", Null, Float_setOffset(Cur, n)) /\ Frame

FloatSetAnchor(a) ==
  Step("float.anchor=", Null, Float_setAnchor(Cur, a)) /\ Frame

FloatBeforetoggle(newState) ==
  /\ float.isConnected
  /\ Step("float.beforetoggle", Null, Float_handleBeforetoggle(Cur, newState))
  /\ Frame

FloatConnectedCallback ==
  /\ ~float.isConnected
  /\ Step("float.connected", Null, Float_connectedCallback(Cur))
  /\ Frame

FloatDisconnectedCallback ==
  /\ float.isConnected
  /\ Step("float.disconnected", Null, Float_disconnectedCallback(Cur))
  /\ Frame

\* Scripts set the combobox's open and offset properties.
ComboboxSetOpen(v) ==
  Step("open=", Null, Combobox_setOpen(Cur, v, connected)) /\ Frame

ComboboxSetOffset(n) ==
  Step("offset=", Null, Combobox_setOffset(Cur, n, connected)) /\ Frame

\* The popover is shown or hidden by the user.
ComboboxPopoverBeforetoggle(proceed) ==
  /\ connected
  /\ Step("beforetoggle", Null,
          Combobox_handlePopoverBeforetoggle(
            Cur, IF open THEN "closed" ELSE "open", proceed))
  /\ Frame

ComboboxConnectedCallback ==
  /\ ~connected
  /\ connected' = TRUE
  /\ Step("connected", Null, Combobox_connectedCallback(Cur, children))
  /\ UNCHANGED children

ComboboxDisconnectedCallback ==
  /\ connected
  /\ connected' = FALSE
  /\ Step("disconnected", Null, Combobox_disconnectedCallback(Cur))
  /\ UNCHANGED children

NextPanel ==
  \/ \E v \in BOOLEAN : FloatSetOpen(v)
  \/ \E n \in Offsets : FloatSetOffset(n)
  \/ \E a \in {Null, 1} : FloatSetAnchor(a)
  \/ \E newState \in {"open", "closed"} : FloatBeforetoggle(newState)
  \/ FloatConnectedCallback
  \/ FloatDisconnectedCallback
  \/ \E v \in BOOLEAN : ComboboxSetOpen(v)
  \/ \E n \in Offsets : ComboboxSetOffset(n)
  \/ \E proceed \in BOOLEAN : ComboboxPopoverBeforetoggle(proceed)
  \/ ComboboxConnectedCallback
  \/ ComboboxDisconnectedCallback

SpecPanel == InitPanel /\ [][NextPanel]_vars

----------------------------------------------------------------------------
\* The recompute of the owned sequence in the option list the combobox
\* extends (src/src/ipe-combobox.demo.html) over IpeElement
\* (src/src/ipe-element.ts).

\* getAssignedElements(): [] when disconnected, else the slot's elements.
getAssignedElements(isConnected, kids) == IF ~isConnected THEN <<>> ELSE kids

\* optionsUpdated(oldValue): the listeners move to the new options and the
\* form value is saved.
optionsUpdated(s, oldValue) ==
  Combobox_saveForm(
    [s EXCEPT !.subscribed = (@ \ Range(oldValue)) \cup Range(s._options)])

\* updateOptions() from the point where getDefinedAssignedElements has
\* returned elements: every element is upgraded by then and passes
\* isHTMLValueOption.
updateOptions_resumed(s, elements) ==
  IF isEqual(s._options, elements) THEN s
  ELSE optionsUpdated([s EXCEPT !._options = elements], s._options)

\* updateOptions(): getDefinedAssignedElements reads the assigned elements
\* at once and awaits whenDefined of the tags among them that have no
\* definition yet; with none to await it returns them in the same turn.
updateOptions(s, elements) ==
  LET tags == {TagOf(e) : e \in Range(elements)} \ s.defined
  IN IF tags = {} THEN updateOptions_resumed(s, elements)
     ELSE [s EXCEPT !.pending =
                      Append(@, [elements |-> elements, tags |-> tags])]

\* The whenDefined promises of a tag are resolved: the calls that await no
\* other tag resume in the order they started.
RECURSIVE ResumePending(_, _)
ResumePending(s, calls) ==
  IF calls = <<>> THEN s
  ELSE LET call == Head(calls)
       IN IF call.tags \subseteq s.defined
          THEN ResumePending(updateOptions_resumed(s, call.elements),
                             Tail(calls))
          ELSE LET s1 == ResumePending(s, Tail(calls))
               IN [s1 EXCEPT !.pending = <<call>> \o @]

\* customElements.define(tag, ...)
define(s, tag) ==
  ResumePending([s EXCEPT !.defined = @ \cup {tag}, !.pending = <<>>],
                s.pending)

\* The list connected over k children whose classes are yet to be defined:
\* connectedCallback has called updateOptions.
InitRecompute ==
  \E k \in 0..NumOptions :
    /\ value = [e \in Opts |-> 1]
    /\ disabled = [e \in Opts |-> FALSE]
    /\ defaultSelected = [e \in Opts |-> FALSE]
    /\ InitState
    /\ _picked = <<>>
    /\ children = InOrder(1..k)
    /\ connected = TRUE
    /\ selected = defaultSelected
    /\ _options = <<>>
    /\ subscribed = {}
    /\ defined = {}
    /\ upgraded = {}
    /\ pending = IF k = 0 THEN <<>>
                 ELSE <<[elements |-> children,
                         tags |-> {TagOf(e) : e \in Range(children)}]>>

\* A script adds or removes a child; the slot's slotchange runs
\* handleSlotChange, which calls updateOptions.
SlotInsert(o) ==
  /\ o \notin Range(children)
  /\ Len(pending) < MaxPending
  /\ children' = InOrder(Range(children) \cup {o})
  /\ Step("insert", o,
          updateOptions(Cur, getAssignedElements(connected, children')))
  /\ UNCHANGED connected

SlotRemove(o) ==
  /\ o \in Range(children)
  /\ Len(pending) < MaxPending
  /\ children' = InOrder(Range(children) \ {o})
  /\ Step("remove", o,
          updateOptions(Cur, getAssignedElements(connected, children')))
  /\ UNCHANGED connected

\* A script defines the class of a tag.
Define(tag) ==
  /\ tag \notin defined
  /\ Step("define", Null, define(Cur, tag))
  /\ Frame

NextRecompute ==
  \/ \E o \in Opts : SlotInsert(o) \/ SlotRemove(o)
  \/ \E tag \in Tags : Define(tag)

SpecRecompute == InitRecompute /\ [][NextRecompute]_vars

----------------------------------------------------------------------------
\* The option list built on Property objects: every assignment to
\* option.selected goes through the option's Property, whose setter asks the
\* host's shouldPropertyChange (a cancelable beforetoggle on the option) and
\* then reports propertyChanged (a toggle on the option); the list listens to
\* both events of every owned option.

Prop_canSelect(s) == ~s._readOnly

Prop_canDeselect(s) ==
  IF s._readOnly THEN FALSE
  ELSE IF ~s._required THEN TRUE
  ELSE Cardinality({o \in Range(s._options) :
                      ~disabled[o] /\ s.selected[o]}) > 1

\* saveForm(): the form receives the formValue getter's entries, the values
\* of the enabled selected options, once each, or null when there is none.
Prop_saveForm(s) ==
  LET values == unique(MapValue(SelectSeq(s._options,
                         LAMBDA o : ~disabled[o] /\ s.selected[o])))
  IN [s EXCEPT !.formValue = IF values = <<>> THEN NullForm ELSE values]

\* The list's beforetoggle listener; ret is FALSE when it has called
\* event.preventDefault(), which is recorded as a call.
Prop_handleOptionBeforeToggle(s, target, newSelected) ==
  IF ~Includes(s._options, target) THEN [s EXCEPT !.ret = TRUE]
  ELSE LET s1 == [s EXCEPT !._userInteracted = TRUE]
       IN IF newSelected /\ Prop_canSelect(s1) THEN [s1 EXCEPT !.ret = TRUE]
          ELSE IF ~newSelected /\ Prop_canDeselect(s1)
          THEN [s1 EXCEPT !.ret = TRUE]
          ELSE [s1 EXCEPT !.ret = FALSE,
                          !.calls = Append(@, [call |-> "preventDefault",
                                               arg |-> target])]

RECURSIVE PropOption_setSelected(_, _, _)
RECURSIVE Prop_assignEach(_, _, _, _)

\* The for loops of selectOption and deselectOption from index i on: in mode
\* "single" every owned option is assigned whether it carries the option's
\* value, in the modes "multiple" and "deselect" the options carrying it are
\* assigned true and false.
Prop_assignEach(s, i, option, mode) ==
  IF i > Len(s._options) THEN s
  ELSE LET other == s._options[i]
           s1 == IF mode = "single"
                 THEN PropOption_setSelected(s, other,
                                             value[other] = value[option])
                 ELSE IF value[other] # value[option] THEN s
                 ELSE PropOption_setSelected(s, other, mode = "multiple")
       IN Prop_assignEach(s1, i + 1, option, mode)

Prop_selectOption(s, option) ==
  Prop_saveForm(Prop_assignEach(s, 1, option,
                                IF s._multiple THEN "multiple" ELSE "single"))

Prop_deselectOption(s, option) ==
  Prop_saveForm(Prop_assignEach(s, 1, option, "deselect"))

\* The list's toggle listener: selectNotifyOption or deselectNotifyOption,
\* whose notifyInput() and notifyChange() are recorded as calls.
Prop_handleOptionToggle(s, target, newSelected) ==
  IF ~Includes(s._options, target) THEN s
  ELSE LET s1 == [s EXCEPT !._userInteracted = TRUE]
           s2 == IF newSelected THEN Prop_selectOption(s1, target)
                 ELSE Prop_deselectOption(s1, target)
       IN [s2 EXCEPT !.calls = @ \o <<[call |-> "notifyInput", arg |-> target],
                                      [call |-> "notifyChange", arg |-> target]>>]

\* option.selected = newValue: the Property's setter returns when the value
\* is the current one, dispatches beforetoggle (shouldSelectedChange) and
\* returns when it is cancelled, else stores the value and dispatches toggle
\* (selectedChanged).
PropOption_setSelected(s, o, newValue) ==
  IF s.selected[o] = newValue THEN s
  ELSE LET s1 == Prop_handleOptionBeforeToggle(s, o, newValue)
       IN IF ~s1.ret THEN [s1 EXCEPT !.ret = TRUE]
          ELSE Prop_handleOptionToggle([s1 EXCEPT !.selected[o] = newValue],
                                       o, newValue)

Prop_select(s, option) ==
  IF ~Includes(s._options, option) THEN [s EXCEPT !.threw = TRUE]
  ELSE Prop_selectOption(s, option)

Prop_deselect(s, option) ==
  IF ~Includes(s._options, option) THEN [s EXCEPT !.threw = TRUE]
  ELSE Prop_deselectOption(s, option)

\* The list connected over its option children, none of which carries the
\* selected attribute.
InitProperty ==
  /\ value \in [Opts -> Values]
  /\ disabled \in [Opts -> BOOLEAN]
  /\ Cardinality({o \in Opts : disabled[o]}) <= MaxDisabled
  /\ defaultSelected = [o \in Opts |-> FALSE]
  /\ InitFields
  /\ _picked = <<>>
  /\ children = InOrder(Opts)
  /\ connected = TRUE
  /\ selected = defaultSelected
  /\ _options = children
  /\ subscribed = Range(children)

PropSelect(o) == Step("Prop.select", o, Prop_select(Cur, o)) /\ Frame

PropDeselect(o) == Step("Prop.deselect", o, Prop_deselect(Cur, o)) /\ Frame

\* Scripts select and deselect and flip the three properties, whose
\* assignment has no other effect on the list state.
NextProperty ==
  \/ \E o \in Opts : PropSelect(o)
  \/ \E o \in Opts : PropDeselect(o)
  \/ ComboboxSetMultiple
  \/ ComboboxSetRequired
  \/ ComboboxSetReadOnly

SpecProperty == InitProperty /\ [][NextProperty]_vars

----------------------------------------------------------------------------
\* The list among children whose class is not defined yet: assignedOptions
\* registers a whenDefined callback for each local name that is not defined,
\* and the callback runs holdSlots.  In this part pending holds the local
\* names of the registered callbacks that have not run, oldest first.

\* The local names of the elements not upgraded, each once, in the order of
\* Tags.
NotDefinedNames(s, kids) ==
  SelectSeq(<<"ipe-option", "x-option">>,
            LAMBDA n : \E e \in Range(kids) : TagOf(e) = n /\ e \notin s.upgraded)

\* holdSlots() with assignedOptions() over the elements kids assigned to the
\* slot: only an upgraded element is an HTMLValueOption.
holdSlots_assigned(s, kids) ==
  holdSlotsOver([s EXCEPT !.pending = @ \o NotDefinedNames(s, kids)],
                SelectSeq(kids, LAMBDA e : e \in s.upgraded))

\* customElements.define(tag, ...): the elements of that name that are in
\* the document are upgraded, their initProperties reading the selected
\* attribute; the whenDefined promises of the name are resolved.
defineElement(s, tag, inDocument) ==
  [s EXCEPT !.defined = @ \cup {tag},
            !.upgraded = @ \cup {e \in inDocument : TagOf(e) = tag},
            !.selected = Option_initProperties(
                           @, {e \in inDocument : TagOf(e) = tag})]

\* The oldest registered callback, its promise resolved, runs holdSlots.
whenDefined_then(s, kids) ==
  holdSlots_assigned([s EXCEPT !.pending = Tail(@)], kids)

\* The list connected over its children: those named ipe-option are
\* upgraded, the last child's class is not defined, and connectedCallback's
\* holdSlots has registered the callback for its name.
InitUpgrade ==
  /\ Markup(NumOptions)
  /\ InitState
  /\ _picked = <<>>
  /\ children = InOrder(Opts)
  /\ connected = TRUE
  /\ defined = {"ipe-option"}
  /\ upgraded = {e \in Opts : TagOf(e) = "ipe-option"}
  /\ selected = [e \in Opts |-> e \in upgraded /\ defaultSelected[e]]
  /\ _options = SelectSeq(children, LAMBDA e : e \in upgraded)
  /\ subscribed = Range(_options)
  /\ pending = <<"x-option">>

DefineElement(tag) ==
  /\ tag \notin defined
  /\ Step("define", Null,
          defineElement(Cur, tag,
                        IF connected THEN Range(children) ELSE {}))
  /\ Frame

\* A microtask runs the oldest callback once its name is defined.  The
\* slot keeps its assigned elements while the list is out of the document.
WhenDefinedThen ==
  /\ pending # <<>>
  /\ Head(pending) \in defined
  /\ Step("whenDefined", Null, whenDefined_then(Cur, children))
  /\ Frame

NextUpgrade ==
  \/ \E tag \in Tags : DefineElement(tag)
  \/ WhenDefinedThen
  \/ DisconnectedCallback
  \/ \E o \in Opts : ListToggle(o)
  \/ \E b \in BOOLEAN : SetMultiple(b)

SpecUpgrade == InitUpgrade /\ [][NextUpgrade]_vars

----------------------------------------------------------------------------
\* Properties of the engine.

\* The owned options whose selected flag is set.
SelectedOwned(s) == {o \in Range(s._options) : s.selected[o]}

\* C1: in a list with multiple=false, after select(option) on an owned
\* option, from any reachable state, at most one owned option is selected.
C1_SelectLeavesAtMostOne ==
  \A o \in Range(_options) :
    ~_multiple => SelectedCount(select(Cur, o)) <= 1

\* C2: with multiple=false, at every point reached through a public
\* operation at most one owned option is selected.
C2_SingleSelection ==
  (last.op # "new" /\ ~_multiple) => SelectedCount(Cur) <= 1

C4_RequiredKeepsSelection ==
  (Interactive /\ _required /\ SelectedCount(Cur) >= 1) =>
    /\ \A o \in Range(_options), c \in BOOLEAN :
         (~disabled[o] /\ selected[o]) =>
           /\ SelectedCount(Option_handleClick(Cur, o, c)) >= 1
           /\ \A key \in {"Enter", " "} :
                SelectedCount(Option_handleKeydown(Cur, o, key, c)) >= 1
    /\ \A key \in {"Enter", " "} :
         (_activeElement # Null /\ selected[_activeElement]) =>
           SelectedCount(handleKeydown(Cur, key)) >= 1

\* C5: toggle, select and deselect called with an option outside the owned
\* sequence raise an error and leave every field of the list and every
\* option's selected flag as they were.
C5_ForeignOptionRaises ==
  \A o \in Opts \ Range(_options) :
    /\ toggle(Cur, o) = [Cur EXCEPT !.threw = TRUE]
    /\ select(Cur, o) = [Cur EXCEPT !.threw = TRUE]
    /\ deselect(Cur, o) = [Cur EXCEPT !.threw = TRUE]

\* A call with a foreign option has raised on a list that holds a selection.
C5_Witness ==
  /\ last.op \in {"toggle", "select", "deselect"}
  /\ last.threw
  /\ last.arg \in Opts \ Range(_options)
  /\ _values # <<>>
  /\ SelectedOwned(Cur) # {}

\* C6: for every owned option o, nextOf(o) is the nearest non-disabled owned
\* option strictly after o, or o itself when there is none; previousOf(o) is
\* the nearest non-disabled owned option strictly before o, or o itself;
\* nextOf(last()) = last() and previousOf(first()) = first().
C6_NextPreviousNearest ==
  LET idx(o) == IndexOf(_options, o)
      enabled == {j \in DOMAIN _options : ~disabled[_options[j]]}
      after(o) == {j \in enabled : j > idx(o)}
      before(o) == {j \in enabled : j < idx(o)}
  IN /\ \A o \in Range(_options) :
          /\ nextOf(Cur, o) =
               IF after(o) = {} THEN o
               ELSE _options[CHOOSE j \in after(o) : \A k \in after(o) : j <= k]
          /\ previousOf(Cur, o) =
               IF before(o) = {} THEN o
               ELSE _options[CHOOSE j \in before(o) : \A k \in before(o) : j >= k]
     /\ getLast(Cur) # Null => nextOf(Cur, getLast(Cur)) = getLast(Cur)
     /\ getFirst(Cur) # Null => previousOf(Cur, getFirst(Cur)) = getFirst(Cur)

\* ArrowDown has moved the active element over a disabled option.
C6_Witness ==
  /\ last.op = "key:ArrowDown"
  /\ _activeElement # Null
  /\ IndexOf(_options, _activeElement) >= 3
  /\ disabled[_options[IndexOf(_options, _activeElement) - 1]]

\* C7: at most one timer of each kind is pending, it is the one the list
\* holds the id of, and the notification requests made while a timer was
\* pending end in exactly one 'input' and exactly one 'change' event.
C7_OneInputOneChange ==
  /\ Cardinality(inputTimers) <= 1
  /\ Cardinality(changeTimers) <= 1
  /\ inputTimers = (IF _inputTimerID = Null THEN {} ELSE {_inputTimerID})
  /\ changeTimers = (IF _changeTimerID = Null THEN {} ELSE {_changeTimerID})
  /\ requests >= 1 => inputEvents + Cardinality(inputTimers) = 1
  /\ requests >= 1 => changeEvents + Cardinality(changeTimers) = 1

\* Two or more requests were made before the timers fired, and one event of
\* each kind was dispatched.
C7_Witness ==
  /\ requests >= 2
  /\ last.op \in {"inputtimer", "changetimer"}
  /\ inputTimers = {}
  /\ changeTimers = {}
  /\ inputEvents = 1
  /\ changeEvents = 1

\* C8: a click or Enter/Space on an option dispatches beforetoggle while
\* selected still has its old value; if the list's listener or another
\* listener cancels it, no selected flag changes and no toggle is dispatched;
\* otherwise selected is assigned and toggle is dispatched after that.
C8_BeforeToggleAssignToggle ==
  \A o \in Range(children), c \in BOOLEAN :
    LET old == selected[o]
        cancelled == c \/ (o \in subscribed /\ Includes(_options, o)
                             /\ ~canSelect(Cur, ~old))
        ok(s) ==
          IF cancelled
          THEN /\ s.trace = <<[ev |-> "beforetoggle", sel |-> old]>>
               /\ s.selected = selected
               /\ s._values = _values
               /\ ~s.ret
          ELSE /\ s.trace = <<[ev |-> "beforetoggle", sel |-> old],
                              [ev |-> "assign", sel |-> ~old],
                              [ev |-> "toggle", sel |-> ~old]>>
               /\ s.ret
    IN /\ ok(Option_handleClick(Cur, o, c))
       /\ \A key \in {"Enter", " "} : ok(Option_handleKeydown(Cur, o, key, c))

\* A click has gone through: beforetoggle, the assignment, toggle.
C8_Witness ==
  /\ last.op = "click"
  /\ Len(last.trace) = 3
  /\ last.trace[1].ev = "beforetoggle"
  /\ last.trace[2].ev = "assign"
  /\ last.trace[3].ev = "toggle"
  /\ last.trace[1].sel # last.trace[2].sel

C10_ActiveIsOwned ==
  _activeElement = Null \/ Includes(_options, _activeElement)

\* C11: a sequence recompute run a second time over the same assigned
\* children assigns no new _options array and makes no unsubscribe and no
\* subscribe call.
C11_RecomputeTwice ==
  \A S \in SUBSET Opts :
    LET assigned == InOrder(S)
        s1 == holdSlotsOver(Cur, assigned)
        s2 == holdSlotsOver([s1 EXCEPT !.calls = <<>>], assigned)
    IN /\ s2.calls = <<>>
       /\ s2._options = s1._options
       /\ s2.subscribed = s1.subscribed

\* A recompute has just replaced the owned sequence of a connected list by
\* two or more children; a second run finds them unchanged.
C11_Witness ==
  /\ last.op \in {"insert", "remove", "connect"}
  /\ connected
  /\ Len(_options) >= 2
  /\ _options = children
  /\ subscribed = Range(children)

\* C12: the options subscribed to are exactly the owned ones, and a
\* recompute makes every unsubscribe call before any subscribe call and
\* subscribes no option that still holds a subscription.
C12_SubscribedAreOwned ==
  /\ subscribed = Range(_options)
  /\ \A S \in SUBSET Opts :
       LET s == holdSlotsOver(Cur, InOrder(S))
           c == s.calls
       IN /\ s.subscribed = Range(s._options)
          /\ \A i, j \in DOMAIN c :
               c[i].call = "unsubscribe" /\ c[j].call = "subscribe" => i < j
          /\ \A j \in DOMAIN c :
               c[j].call = "subscribe" =>
                 /\ \/ c[j].arg \notin subscribed
                    \/ \E i \in 1..(j - 1) :
                         c[i].call = "unsubscribe" /\ c[i].arg = c[j].arg
                 /\ \A i \in 1..(j - 1) :
                      ~(c[i].call = "subscribe" /\ c[i].arg = c[j].arg)

\* A child was removed from a connected list that keeps another child: the
\* old and the new owned sequence differ and share an option.
C12_Witness ==
  /\ last.op = "remove"
  /\ connected
  /\ Len(_options) >= 1
  /\ Len(_options) < NumOptions
  /\ subscribed = Range(_options)

\* The de-duplicated values of the owned options that are selected and not
\* disabled, in document order.
SelectedEnabledValues ==
  unique(MapValue(SelectSeq(_options,
                            LAMBDA o : selected[o] /\ ~disabled[o])))

\* No recompute is outstanding: the list is connected and a slotchange
\* would find nothing to change.
Settled ==
  /\ connected
  /\ [holdSlots(Cur) EXCEPT !.ret = TRUE] = Cur

\* C13: in every settled state the values held by values are exactly the
\* values of the owned options that are selected and not disabled.
C13_ValuesAreSelectedValues ==
  Settled => Range(_values) = Range(SelectedEnabledValues)

\* C14: in an accordion with multiple = false, once an owned disclosure has
\* become open every other owned disclosure is closed.
C14_OpeningClosesOthers ==
  ~_multiple =>
    \A o \in Range(_options) :
      ~selected[o] =>
        LET s == Disclosure_changeOpen(Cur, o, TRUE)
        IN s.selected[o] =>
             \A p \in Range(_options) \ {o} : ~s.selected[p]

\* C15: in an accordion with required = true, closing an owned disclosure
\* while fewer than two owned disclosures are open is refused; from D1 open,
\* D2 and D3 closed and multiple = false, opening D2 closes D1 and closing D2
\* afterwards is refused.
C15_RequiredKeepsOneOpen ==
  _required =>
    /\ \A o \in Range(_options) :
         (/\ selected[o]
          /\ Cardinality({p \in Range(_options) : selected[p]}) < 2)
         => LET s == Disclosure_changeOpen(Cur, o, FALSE)
            IN ~s.ret /\ s.selected = selected
    /\ (/\ ~_multiple
        /\ _options = <<1, 2, 3>>
        /\ selected = <<TRUE, FALSE, FALSE>>
        /\ \A o \in Opts : ~disabled[o])
       => LET s1 == Disclosure_changeOpen(Cur, 2, TRUE)
              s2 == Disclosure_changeOpen(s1, 2, FALSE)
          IN /\ s1.selected = <<FALSE, TRUE, FALSE>>
             /\ ~s2.ret
             /\ s2.selected = <<FALSE, TRUE, FALSE>>

\* D2 is the only open disclosure of a required, single accordion and a
\* request to close it has just been refused at the beforetoggle signal.
C15_Witness ==
  /\ _required
  /\ ~_multiple
  /\ selected = <<FALSE, TRUE, FALSE>>
  /\ last.op \in {"Accordion.deselect", "Accordion.toggle", "summaryclick"}
  /\ last.arg = 2
  /\ last.before = 1
  /\ last.trace = <<[ev |-> "beforetoggle", sel |-> TRUE]>>

\* C16: restoring a state snapshot leaves multiple, minLength, maxLength and
\* values at the snapshot's entry for that field, or at the field's default
\* when the entry is missing or malformed, and raises nothing.
C16_RestoreSetsEachField ==
  \A state \in Snapshots :
    LET s == formStateRestoreCallback(Cur, state, "restore")
    IN /\ ~s.threw
       /\ s._multiple = BooleanFData_from(state.multiple, FALSE)
       /\ s._minLength = IntegerFData_from(state.minlength, 0)
       /\ s._maxLength = IntegerFData_from(state.maxlength, Infinity)
       /\ s._values = state.values

\* C17: on a read-only list, select(option) called on an owned, unselected
\* option raises nothing and leaves the option selected.
C17_SelectBypassesGate ==
  _readOnly =>
    \A o \in Range(_options) :
      ~selected[o] => ~select(Cur, o).threw /\ select(Cur, o).selected[o]

\* C18: valueMissing is raised exactly when the list is required and no
\* owned option is selected; tooShort exactly when it is multiple and fewer
\* than minLength are selected; tooLong exactly when it is multiple and more
\* than maxLength are selected, or single and more than one is selected.
C18_FlagsFollowSelection ==
  LET flags == getFormValidity(Cur)
      n == SelectedCount(Cur)
  IN /\ flags.valueMissing <=> (_required /\ n = 0)
     /\ flags.tooShort <=> (_multiple /\ n < _minLength)
     /\ flags.tooLong <=> \/ _multiple /\ n > _maxLength
                          \/ ~_multiple /\ n > 1

\* C19: in a multiple list of A, B, C with minLength 1, maxLength 2 and
\* nothing selected, select(A) and select(B) select them, and after
\* select(C) either C is not selected or tooLong is raised.
C19_ThirdSelectionReported ==
  (/\ _multiple
   /\ _minLength = 1
   /\ _maxLength = 2
   /\ _options = <<1, 2, 3>>
   /\ \A o \in Opts : ~selected[o]
   /\ _values = <<>>
   /\ _selectedOptions = <<>>)
  => LET sA == select(Cur, 1)
         sB == select(sA, 2)
         sC == select(sB, 3)
     IN /\ ~sA.threw /\ sA.selected[1]
        /\ ~sB.threw /\ sB.selected[1] /\ sB.selected[2]
        /\ ~sC.threw
        /\ ~sC.selected[3] \/ getFormValidity(sC).tooLong

\* select(C) has just made C the third selected option of the list.
C19_Witness ==
  /\ _multiple
  /\ _minLength = 1
  /\ _maxLength = 2
  /\ last.op = "select"
  /\ last.arg = 3
  /\ last.before = 2
  /\ _values = <<1, 2, 3>>
  /\ \A o \in Opts : selected[o]
  /\ getFormValidity(Cur).tooLong

\* C20: after a form reset the selected owned options are exactly the owned
\* options that are not disabled and whose defaultSelected is true, whatever
\* required, readOnly and the selection were.
C20_ResetSelectsDefaults ==
  LET s == formResetCallback(Cur)
  IN \A o \in Range(s._options) :
       s.selected[o] <=> (~disabled[o] /\ defaultSelected[o])

\* C21: previous() is the previous non-disabled option of the focused owned
\* option when there is one, else of the last selected option, else of the
\* last option of the list.
C21_PreviousFromLast ==
  \A focused \in Opts \cup {Null} :
    LET base == IF focused \in Range(_options) THEN focused
                ELSE IF getLastSelected(Cur) # Null THEN getLastSelected(Cur)
                ELSE getLast(Cur)
    IN previous(Cur, focused) =
         IF base = Null THEN Null ELSE previousOf(Cur, base)

\* Every pick carries the selected flag of the owned option with its value,
\* the first one where several options share it.
PickedMirrors(s) ==
  \A pick \in Range(s._picked) :
    \A i \in DOMAIN s._options :
      (/\ value[s._options[i]] = value[pick]
       /\ \A j \in 1..(i - 1) : value[s._options[j]] # value[pick])
        => s.selected[pick] = s.selected[s._options[i]]

C24_LatestSnapshotWins ==
  pending = <<>> =>
    _options = SelectSeq(children, LAMBDA e : TagOf(e) \in defined)

\* C25: with multiple set, select(X), deselect(X) and a user's toggle of X
\* change the selected flag only of the owned options with X's value, and
\* after deselect(X) X is not selected.
C25_MultipleTouchesOnlyMatching ==
  _multiple =>
    \A X \in Range(_options) :
      LET OthersKept(s) ==
            \A o \in Range(_options) :
              value[o] # value[X] => s.selected[o] = selected[o]
      IN /\ OthersKept(select(Cur, X))
         /\ OthersKept(deselect(Cur, X))
         /\ OthersKept(Option_handleClick(Cur, X, FALSE))
         /\ ~deselect(Cur, X).selected[X]

\* C26: with multiple unset, after select(X) on an owned option X an owned
\* option is selected if and only if it is X.
C26_SingleSelectsExactlyX ==
  ~_multiple =>
    \A X \in Range(_options) :
      \A o \in Range(_options) : select(Cur, X).selected[o] <=> o = X

\* A handler left the options' selected flags, the values and the pending
\* notifications as they were, and raised no error.
SilentNoOp(s) ==
  /\ ~s.threw
  /\ s.selected = selected
  /\ s._values = _values
  /\ s.inputTimers = inputTimers
  /\ s.changeTimers = changeTimers
  /\ s._inputTimerID = _inputTimerID
  /\ s._changeTimerID = _changeTimerID

\* C27: a user's change that the gate rejects (canSelect: the list is
\* read-only, or it is required, the change deselects and the list holds no
\* second selected option) raises no error, changes no selected flag and no
\* value, and schedules no notification.
C27_GateRejectionIsSilent ==
  /\ \A X \in Range(_options) :
       ~canSelect(Cur, ~selected[X])
         => SilentNoOp(Option_handleClick(Cur, X, FALSE))
  /\ \A key \in {"Enter", " "} :
       (_activeElement # Null /\ ~canSelect(Cur, ~selected[_activeElement]))
         => SilentNoOp(handleKeydown(Cur, key))

\* A click on the one selected option of a required list was rejected: the
\* option dispatched beforetoggle and nothing else.
C27_Witness ==
  /\ last.op = "click"
  /\ Len(last.trace) = 1
  /\ last.trace[1].ev = "beforetoggle"
  /\ _required /\ ~_readOnly
  /\ _selectedOptions = <<last.arg>>
  /\ selected[last.arg]
  /\ _values # <<>>

\* No disabled option is active or selected in s without having been so
\* before.
DisabledKept(s) ==
  \A o \in Opts :
    disabled[o] =>
      /\ s.selected[o] => selected[o]
      /\ s._activeElement = o => _activeElement = o

\* C28: focusing the list, a key press and a click on an option make no
\* disabled option the active element and select no disabled option.
C28_DisabledStaysOut ==
  /\ DisabledKept(handleFocus(Cur))
  /\ \A gainsFocus \in BOOLEAN : DisabledKept(handleClick(Cur, gainsFocus))
  /\ \A key \in Keys : DisabledKept(handleKeydown(Cur, key))
  /\ \A X \in Range(children) :
       ~disabled[X] =>
         /\ DisabledKept(Option_handleClick(Cur, X, FALSE))
         /\ \A key \in Keys :
              DisabledKept(Option_handleKeydown(Cur, X, key, FALSE))

\* C29: with an active element, Home, End, ArrowDown and ArrowUp make
\* first(), last(), nextOf(activeElement) and previousOf(activeElement) the
\* active element and change no selected flag and no value.
C29_NavigationKeys ==
  _activeElement # Null =>
    /\ handleKeydown(Cur, "Home")._activeElement = List_first(Cur)
    /\ handleKeydown(Cur, "End")._activeElement = List_last(Cur)
    /\ handleKeydown(Cur, "ArrowDown")._activeElement
         = nextOf(Cur, _activeElement)
    /\ handleKeydown(Cur, "ArrowUp")._activeElement
         = previousOf(Cur, _activeElement)
    /\ \A key \in {"Home", "End", "ArrowDown", "ArrowUp"} :
         /\ handleKeydown(Cur, key).selected = selected
         /\ handleKeydown(Cur, key)._values = _values
         /\ handleKeydown(Cur, key)._selectedOptions = _selectedOptions

\* ArrowUp has moved the active element from the last enabled option to the
\* one before it, past a selected option that stayed selected.
C29_Witness ==
  /\ last.op = "key:ArrowUp"
  /\ _activeElement # Null
  /\ _activeElement # getLast(Cur)
  /\ nextOf(Cur, _activeElement) = getLast(Cur)
  /\ \E o \in Range(_options) : selected[o] /\ o # _activeElement

\* The keys the list does not handle.
OtherKeys == Keys \ {"Home", "End", "ArrowDown", "ArrowUp", "Enter", " "}

\* C30 (as stated): a keydown whose key is none of Home, End, ArrowDown,
\* ArrowUp, Enter and Space leaves the whole engine state unchanged, the
\* user-interacted flag included.
C30_OtherKeysNoOp ==
  \A key \in OtherKeys : handleKeydown(Cur, key) = Cur

\* C30 (amended): such a keydown sets the user-interacted flag and leaves
\* everything else unchanged: selected flags, values, active element and
\* pending notifications.
C30_OtherKeysOnlyMarkInteraction ==
  \A key \in OtherKeys :
    handleKeydown(Cur, key) = [Cur EXCEPT !._userInteracted = TRUE]

\* Tab was pressed on a focused list and had an effect (only effective steps
\* are recorded in last): the flag is now set, the active element and the
\* selection are still there.
C30_Witness ==
  /\ last.op = "key:Tab"
  /\ _userInteracted
  /\ _activeElement # Null
  /\ \E o \in Range(_options) : selected[o]

\* C31: in every reachable list state toggle(option) leaves the list in the
\* state deselect(option) leaves it in when option.selected is true, and in
\* the state select(option) leaves it in when it is false.
C31_ToggleDispatches ==
  \A o \in Opts :
    toggle(Cur, o) = IF selected[o] THEN deselect(Cur, o) ELSE select(Cur, o)

\* toggle has deselected the owned option that was selected.
C31_Witness ==
  /\ last.op = "toggle"
  /\ ~last.threw
  /\ last.arg \in Range(_options)
  /\ ~selected[last.arg]
  /\ last.before > 0
  /\ SelectedCount(Cur) = 0

\* C32: with the popover closed and multiple false, ArrowDown, ArrowUp, Home
\* and End on the combobox move the single selection to the next, previous,
\* first or last enabled option, or leave the selection as it is when it is
\* already there; a list with a selected option never ends with none.
C32_ClosedArrowsKeepASelection ==
  (~open /\ ~_multiple) =>
    \A key \in {"ArrowDown", "ArrowUp", "Home", "End"} :
      LET r == Combobox_handleKeydown(Cur, key, FALSE)
          current == getFirstSelected(Cur)
          target == IF key = "ArrowDown" THEN nextOf(Cur, current)
                    ELSE IF key = "ArrowUp" THEN previousOf(Cur, current)
                    ELSE IF key = "Home" THEN getFirst(Cur)
                    ELSE getLast(Cur)
      IN current # Null =>
           /\ \E o \in Range(_options) : r.selected[o]
           /\ target = current =>
                \A o \in Range(_options) : r.selected[o] = selected[o]

\* A run dispatched beforetoggle on the combobox.
DispatchedBeforetoggle(r) ==
  \E i \in DOMAIN r.calls : r.calls[i].call = "beforetoggle"

\* C33: whatever changes the combobox's open state, the open property
\* assigned by a script or the popover about to toggle, dispatches a
\* cancelable beforetoggle on the combobox first, and open keeps its value
\* when a listener cancels it.
C33_OpenChangesAreGated ==
  /\ \A v \in BOOLEAN :
       LET r == Combobox_setOpen(Cur, v, connected)
       IN r.open # open => DispatchedBeforetoggle(r)
  /\ \A proceed \in BOOLEAN :
       LET r == Combobox_handlePopoverBeforetoggle(
                  Cur, IF open THEN "closed" ELSE "open", proceed)
       IN /\ r.open # open => DispatchedBeforetoggle(r)
          /\ ~proceed => r.open = open

\* A run in which the list's beforetoggle listener cancelled an assignment,
\* or in which its toggle listener notified.
Hooked(r) ==
  \E i \in DOMAIN r.calls :
    r.calls[i].call \in {"preventDefault", "notifyInput", "notifyChange"}

\* C34: in the list built on Property objects, select(option) and
\* deselect(option) force the owned option's selected flag past the
\* per-option hook: the list's beforetoggle listener vetoes none of the
\* list's own assignments and its notifying toggle listener is not entered.
C34_ForceBypassesHook ==
  \A X \in Range(_options) :
    /\ Prop_select(Cur, X).selected[X]
    /\ ~Prop_deselect(Cur, X).selected[X]
    /\ ~Hooked(Prop_select(Cur, X))
    /\ ~Hooked(Prop_deselect(Cur, X))

\* C35: a disconnected list owns no option and holds no subscription to an
\* option, also after a whenDefined callback registered before the
\* disconnection has run.
C35_DisconnectedOwnsNothing ==
  ~connected => _options = <<>> /\ subscribed = {}

\* C36: the accordion's toggle, select and deselect raise the ownership
\* error for a disclosure that is not among its owned options, and leave
\* that disclosure's open state as it is.
C36_AccordionRejectsForeign ==
  \A o \in Opts \ Range(_options) :
    /\ Accordion_toggle(Cur, o).threw
    /\ Accordion_select(Cur, o).threw
    /\ Accordion_deselect(Cur, o).threw
    /\ Accordion_toggle(Cur, o).selected[o] = selected[o]
    /\ Accordion_select(Cur, o).selected[o] = selected[o]
    /\ Accordion_deselect(Cur, o).selected[o] = selected[o]

\* The accordion's listener cancels the beforetoggle of disclosure o about to
\* take the open state v.
Cancels(o, v) ==
  /\ v # selected[o]
  /\ o \in subscribed
  /\ Accordion_handleOptionBeforeToggle(Cur, IF v THEN "open" ELSE "closed")

\* C37: whatever changes a disclosure's open state, the open or selected
\* setter, toggle, select, deselect or a summary click, raises a cancelable
\* beforetoggle first; when it is cancelled open and selected keep their
\* values and no toggle is raised.
C37_DisclosureAsksFirst ==
  \A o \in Opts :
    /\ Disclosure_toggle(Cur, o) = Disclosure_changeOpen(Cur, o, ~selected[o])
    /\ Disclosure_handleSummaryClick(Cur, o)
         = Disclosure_changeOpen(Cur, o, ~selected[o])
    /\ Disclosure_select(Cur, o) = Disclosure_changeOpen(Cur, o, TRUE)
    /\ Disclosure_deselect(Cur, o) = Disclosure_changeOpen(Cur, o, FALSE)
    /\ \A v \in BOOLEAN :
         LET r == Disclosure_changeOpen(Cur, o, v)
         IN /\ r.selected # selected =>
                 r.trace # <<>> /\ r.trace[1].ev = "beforetoggle"
            /\ Cancels(o, v) =>
                 /\ r.selected = selected
                 /\ r._openAttr = _openAttr
                 /\ \A i \in DOMAIN r.trace : r.trace[i].ev # "toggle"

\* A summary click on the only open disclosure of a required accordion was
\* cancelled: beforetoggle is all that was raised, and it is still open.
C37_Witness ==
  /\ last.op = "summaryclick"
  /\ last.trace = <<[ev |-> "beforetoggle", sel |-> TRUE]>>
  /\ _required
  /\ selected[last.arg]
  /\ SelectedCount(Cur) = 1

\* C38: in every settled state selectedOptions holds exactly the owned
\* options whose selected flag is set, and so no option that has left the
\* owned sequence.
C38_SelectedOptionsAreSelectedOwned ==
  Settled => Range(_selectedOptions) = SelectedOwned(Cur)

\* The result r of an operation that changed the values of an enabled list
\* standing in a form has handed the new values to the form.
Submitted(r) ==
  (form /\ ~r._disabled /\ r._values # _values) =>
    r.formValue = getFormValue(r)

\* C39: when the list stands in a form and is not disabled, after every
\* operation that changes the values (select, deselect, toggle, the value and
\* the values setter, the recompute of the owned sequence, a form reset, a
\* user toggle) the value last handed to the form is the current values.
C39_FormValueFollowsValues ==
  /\ \A o \in Opts :
       /\ Submitted(select(Cur, o))
       /\ Submitted(deselect(Cur, o))
       /\ Submitted(toggle(Cur, o))
       /\ \A b \in BOOLEAN : Submitted(handleOptionToggle(Cur, o, b))
  /\ \A v \in Values : Submitted(changeValues(Cur, <<v>>))
  /\ \A vs \in ValueLists :
       LET s == changeValues(Cur, unique(vs))
       IN Submitted(IF s.ret THEN saveFormValue(s) ELSE s)
  /\ Submitted(holdSlots(Cur))
  /\ Submitted(formResetCallback(Cur))

\* C40: assigning a boolean to the accordion's required property makes the
\* accordion's required state that value.
C40_RequiredSetterSets ==
  \A v \in BOOLEAN : Accordion_setRequired(Cur, v)._required = v

====
